---- MODULE Spec2Model ----
(***************************************************************************)
(* A model of the Alpaca REST client: the transport invoker                *)
(* (alpaca_api_request), the trading client (AlpacaTradingAPI) and the     *)
(* market-data client (AlpacaMarketDataAPI); and of the streaming listener *)
(* (AlpacaTradingAPIWebSocket), which has a section and a specification of *)
(* its own further down.                                                   *)
(*                                                                         *)
(* A client method is synchronous: one invocation validates its inputs,    *)
(* issues its HTTP request, receives the response and normalises it.  Each *)
(* method is one action; its inputs (the arguments and the response the    *)
(* server gives) are drawn with \E.  The state records the last            *)
(* invocation: the call, the requests it put on the wire, the response it  *)
(* received and its outcome (a returned value or a raised exception).      *)
(***************************************************************************)
EXTENDS Integers, Sequences, FiniteSets, TLC

VARIABLES
    call,      \* the last invocation: [op |-> name, ...arguments]
    sent,      \* the HTTP requests that invocation issued, in order
    resp,      \* the HTTP response it received (NoResponse when none)
    outcome,   \* [exc |-> exception or NoExc, val |-> returned value]
    streams,   \* the listener's self.streams
    ws,        \* the listener's self.ws: an index of conns, 0 before connect
    conns,     \* the connections the listener opened, in order
    setter,    \* the caller: [pc |-> "idle", or "assigned" inside set_streams,
               \* streams |-> the list the caller last stored, <<>> if none]
    events     \* the calls and close events that have happened so far

restVars == <<call, sent, resp, outcome>>
streamVars == <<streams, ws, conns, setter, events>>
vars == <<call, sent, resp, outcome, streams, ws, conns, setter, events>>

(***************************************************************************)
(* Bounds of the model.                                                    *)
(***************************************************************************)
\* the longest symbol string given to _normalise_symbol / create_order
MaxSymLen == 3
\* the longest record list a response carries for one symbol
MaxRecords == 2
\* the calls of the listener's methods plus the close events of one run
MaxEvents == 3

(***************************************************************************)
(* Python values.  Every value is a record of one shape, so that any two   *)
(* values can be compared:                                                 *)
(*   t  the type tag: "null" "bool" "int" "float" "str" "list" "obj"       *)
(*      (JSON), "nan" (float('nan')), "datetime", "dataclass", and         *)
(*      "notjson" for a response body that resp.json() cannot decode       *)
(*   i  the number: an int, a bool as 0/1, a float in units of 1/FloatUnit *)
(*   s  the text of a str, the ISO text of a datetime, a dataclass's name  *)
(*   l  the items of a list                                                *)
(*   o  the items of a dict (or fields of a dataclass) as a sequence of    *)
(*      <<key, value>> pairs in insertion order                            *)
(***************************************************************************)
FloatUnit == 10^6

PV(t, i, s, l, o) == [t |-> t, i |-> i, s |-> s, l |-> l, o |-> o]
PNone       == PV("null", 0, "", <<>>, <<>>)
PBool(b)    == PV("bool", IF b THEN 1 ELSE 0, "", <<>>, <<>>)
PInt(n)     == PV("int", n, "", <<>>, <<>>)
PFloat(u)   == PV("float", u, "", <<>>, <<>>)
PNaN        == PV("nan", 0, "", <<>>, <<>>)
PStr(s)     == PV("str", 0, s, <<>>, <<>>)
PList(l)    == PV("list", 0, "", l, <<>>)
PDict(o)    == PV("obj", 0, "", <<>>, o)
PDatetime(s) == PV("datetime", 0, s, <<>>, <<>>)
PData(cls, o) == PV("dataclass", 0, cls, <<>>, o)
NotJson     == PV("notjson", 0, "", <<>>, <<>>)

\* isinstance(v, dict) / isinstance(v, Mapping)
IsDict(v)  == v.t = "obj"
\* isinstance(v, list)
IsList(v)  == v.t = "list"
\* isinstance(v, str)
IsStr(v)   == v.t = "str"
\* isinstance(v, int): bool is a subclass of int
IsIntInstance(v) == v.t \in {"int", "bool"}
\* isinstance(v, float)
IsFloatInstance(v) == v.t \in {"float", "nan"}

\* Python truthiness: bool(v)
Truthy(v) ==
    CASE v.t = "null" -> FALSE
      [] v.t \in {"bool", "int", "float"} -> v.i # 0
      [] v.t = "str" -> v.s # ""
      [] v.t = "list" -> v.l # <<>>
      [] v.t = "obj" -> v.o # <<>>
      [] OTHER -> TRUE

\* the keys of a dict, in insertion order
Keys(d) == [k \in 1..Len(d.o) |-> d.o[k][1]]
HasKey(d, key) == \E k \in 1..Len(d.o) : d.o[k][1] = key
\* d[key] of a dict that has the key
Item(d, key) == d.o[CHOOSE k \in 1..Len(d.o) : d.o[k][1] = key][2]
\* d.get(key): None when the key is absent
Get(d, key) == IF HasKey(d, key) THEN Item(d, key) ELSE PNone
\* d.get(key, default)
GetOr(d, key, default) == IF HasKey(d, key) THEN Item(d, key) ELSE default

(***************************************************************************)
(* Exceptions.  An exception is [type, message_body, status_code]; the     *)
(* class hierarchy is that of alpaca_api_request_handler.py and of the     *)
(* Python built-ins the code raises or catches.                            *)
(***************************************************************************)
Exc(type) == [type |-> type, message_body |-> "", status_code |-> -1]
NoExc == Exc("")

\* the direct base class of each exception class
BaseOf(type) ==
    CASE type = "InvalidSortParameterError" -> "ValueError"
      [] type = "InvalidLimitParameterError" -> "ValueError"
      [] type = "InvalidQuantityError" -> "TypeError"
      [] type = "InsufficientCryptoQuantityError" -> "ValueError"
      [] type = "InvalidAlpacaPayloadError" -> "TypeError"
      [] type \in {"BadRequestError", "UnauthorizedError", "ForbiddenError",
                   "UnprocessableEntityError", "RateLimitError",
                   "InternalServerError", "UnknownError"} -> "AlpacaAPIError"
      [] OTHER -> "Exception"

\* isinstance(e, cls)
IsInstance(e, cls) ==
    /\ e.type # ""
    /\ \/ e.type = cls
       \/ BaseOf(e.type) = cls
       \/ cls = "Exception"

\* the result of evaluating an expression: a value, or a raised exception
Ret(v)   == [exc |-> NoExc, val |-> v]
Raise(e) == [exc |-> e, val |-> PNone]
Raised(r) == r.exc.type # ""

\* AlpacaAPIError.__init__ of a subclass: the status_code is the class attribute
AlpacaAPIError(type, status_code, message_body) ==
    [type |-> type, message_body |-> message_body, status_code |-> status_code]
BadRequestError(message_body) == AlpacaAPIError("BadRequestError", 400, message_body)
UnknownError(message_body) == AlpacaAPIError("UnknownError", 0, message_body)

(***************************************************************************)
(* Transport invoker.                                                      *)
(***************************************************************************)
HTTP_OK == 200
HTTP_NO_CONTENT == 204

NoResponse == [status_code |-> 0, text |-> "", json |-> NotJson]

\* the request session.request(method, url, **options) puts on the wire
Request(method, path, options) ==
    [method |-> method, path |-> path, options |-> options]

\* a decoder that returns whatever value the body decodes to
_safe_json_any(r) ==
    IF r.json.t = "notjson" THEN Raise(Exc("JsonResponseError")) ELSE Ret(r.json)

_safe_json(r) ==
    IF r.json.t = "notjson" THEN Raise(Exc("JsonResponseError"))
    ELSE IF ~IsDict(r.json) THEN Raise(Exc("JsonResponseError"))
    ELSE Ret(r.json)

\* a transport that makes a second attempt
session_request_retry(method, path, options) ==
    <<Request(method, path, options), Request(method, path, options)>>

\* line 157: the requests alpaca_api_request issues, one call of
\* session.request with no loop around it
session_request(method, path, options) == <<Request(method, path, options)>>

\* a transport that decodes the body of a 204 response as it does for 200
alpaca_api_request_decode_empty(r) ==
    IF r.status_code \in {HTTP_OK, HTTP_NO_CONTENT} THEN _safe_json(r)
    ELSE Raise(UnknownError(ToString(r.status_code)))

\* what alpaca_api_request makes of the response r to its one request
alpaca_api_request(r) ==
    IF r.status_code = HTTP_OK THEN _safe_json(r)
    ELSE IF r.status_code = HTTP_NO_CONTENT THEN Ret(PDict(<<>>))
    ELSE Raise(UnknownError(ToString(r.status_code)))

(***************************************************************************)
(* Text whose characters matter (symbols, formatted quantities) is a       *)
(* sequence of one-character strings.                                      *)
(***************************************************************************)
SymChars == {"b", "B", " ", "/", "-"}
Symbols == UNION {[1..n -> SymChars] : n \in 0..MaxSymLen}

\* str.upper(), character by character
UpperChar(c) == IF c = "b" THEN "B" ELSE c
Upper(s) == [k \in 1..Len(s) |-> UpperChar(s[k])]

\* str.strip(): leading and trailing whitespace removed
RECURSIVE LStrip(_)
LStrip(s) == IF s # <<>> /\ Head(s) = " " THEN LStrip(Tail(s)) ELSE s
RECURSIVE RStrip(_)
RStrip(s) ==
    IF s # <<>> /\ s[Len(s)] = " " THEN RStrip(SubSeq(s, 1, Len(s) - 1)) ELSE s
Strip(s) == LStrip(RStrip(s))

\* str.replace(ch, "")
Remove(s, ch) == SelectSeq(s, LAMBDA c : c # ch)

\* str(asset).lower() over the asset-class names used here
AssetClasses == {"crypto", "CRYPTO", "us_equity"}
Lower(a) == IF a = "CRYPTO" THEN "crypto" ELSE a

(***************************************************************************)
(* AlpacaTradingAPI: canonicalizers.                                       *)
(***************************************************************************)
\* a minimum of 0.001 instead of 0.0001
CRYPTO_MIN_ORDER_QTY_Tenfold == FloatUnit \div 1000
CRYPTO_MIN_ORDER_QTY == 100     \* 0.0001 in units of 1/FloatUnit

_normalise_symbol(symbol, asset) ==
    LET cleaned == Strip(Upper(symbol))
    IN  IF Lower(asset) = "crypto"
        THEN Remove(Remove(cleaned, "/"), "-")
        ELSE cleaned

\* float(text) for the strings used as quantities; any other text is not a number
NumericText == {"1.5", "0.00005"}
TextToFloat(s) == IF s = "1.5" THEN 1500000 ELSE 50

\* float(v)
PyFloat(v) ==
    CASE v.t \in {"int", "bool"} -> Ret(PFloat(v.i * FloatUnit))
      [] v.t \in {"float", "nan"} -> Ret(v)
      [] v.t = "str" -> IF v.s \in NumericText THEN Ret(PFloat(TextToFloat(v.s)))
                        ELSE Raise(Exc("ValueError"))
      [] OTHER -> Raise(Exc("TypeError"))

\* round(x) of a float: to the nearest int, a tie to the even one
Round(u) ==
    LET fl == u \div FloatUnit
        rem == u % FloatUnit
    IN  IF 2 * rem < FloatUnit THEN fl
        ELSE IF 2 * rem > FloatUnit THEN fl + 1
        ELSE IF fl % 2 = 0 THEN fl ELSE fl + 1

\* the decimal digits of n, zero-padded on the left to `width` characters
RECURSIVE Digits(_, _)
Digits(n, width) ==
    IF width = 0 THEN <<>>
    ELSE Digits(n \div 10, width - 1) \o <<ToString(n % 10)>>
RECURSIVE IntDigits(_)
IntDigits(n) == IF n < 10 THEN <<ToString(n)>> ELSE IntDigits(n \div 10) \o <<ToString(n % 10)>>
RECURSIVE RStripChar(_, _)
RStripChar(s, ch) ==
    IF s # <<>> /\ s[Len(s)] = ch THEN RStripChar(SubSeq(s, 1, Len(s) - 1), ch) ELSE s

\* f"{x:.6f}" of a float x >= 0
Format6f(u) == IntDigits(u \div FloatUnit) \o <<".">> \o Digits(u % FloatUnit, 6)

\* a str value whose characters are kept in l, one PStr per character
PText(chars) == PV("str", 0, "", [k \in 1..Len(chars) |-> PStr(chars[k])], <<>>)

_normalise_quantity(qty, asset) ==
    IF qty.t = "null" THEN Ret(PNone)
    ELSE
    LET f == PyFloat(qty)
        qty_value == f.val
    IN  IF Raised(f)
        THEN IF IsInstance(f.exc, "TypeError")
             THEN Raise(Exc("InvalidQuantityError"))
             ELSE f
        \* every comparison with NaN is false
        ELSE IF qty_value.t # "nan" /\ qty_value.i <= 0
        THEN Raise(Exc("InvalidQuantityError"))
        ELSE IF Lower(asset) = "crypto"
        THEN IF qty_value.t # "nan" /\ qty_value.i < CRYPTO_MIN_ORDER_QTY
             THEN Raise(Exc("InsufficientCryptoQuantityError"))
             ELSE LET normalised ==
                        IF qty_value.t = "nan" THEN <<"n", "a", "n">>
                        ELSE RStripChar(RStripChar(Format6f(qty_value.i), "0"), ".")
                  IN  Ret(PText(IF normalised # <<>> THEN normalised
                                ELSE <<"0", ".", "0", "0", "0", "1">>))
        ELSE IF qty_value.t = "nan" THEN Raise(Exc("ValueError"))
        ELSE Ret(PInt(Round(qty_value.i)))

\* the quantities given to _normalise_quantity and create_order
QtyValues ==
    {PNone, PInt(-1), PInt(0), PInt(1), PInt(2), PBool(TRUE), PNaN,
     PStr("1.5"), PStr("0.00005"), PStr("abc"), PList(<<PInt(1)>>)}
    \cup {PFloat(u) : u \in {-500000, 1, 50, 99, 100, 101, 400000, 500000,
                             1500000, 2500000}}

(***************************************************************************)
(* Dicts and dataclasses.                                                  *)
(***************************************************************************)
\* d[key] = v: in place when the key exists, appended otherwise
SetItem(d, key, v) ==
    IF HasKey(d, key)
    THEN PDict([k \in 1..Len(d.o) |-> IF d.o[k][1] = key THEN <<key, v>> ELSE d.o[k]])
    ELSE PDict(Append(d.o, <<key, v>>))

\* {k: v for k, v in d.items() if k in allowed}
Filter(d, allowed) == PDict(SelectSeq(d.o, LAMBDA kv : kv[1] \in allowed))

\* one optional entry of a dict under construction
Opt(cond, key, v) == IF cond THEN << <<key, v>> >> ELSE <<>>

\* cls(**payload) of a dataclass: a TypeError when a field without default is
\* missing or a keyword is not a field
Construct(cls, fields, required, payload) ==
    IF /\ \A k \in required : HasKey(payload, k)
       /\ \A k \in 1..Len(payload.o) : payload.o[k][1] \in fields
    THEN Ret(PData(cls, payload.o))
    ELSE Raise(Exc("TypeError"))

\* str(v): a str stays itself; another value's text is kept as str-of-value
PyStr(v) == IF IsStr(v) THEN v ELSE PV("str", 0, "str()", <<v>>, <<>>)

(***************************************************************************)
(* HTTP responses.                                                         *)
(***************************************************************************)
ErrorStatuses == {400, 401, 403, 404, 422, 429, 500}
ErrorTexts == {"", "rate limit exceeded"}

Response(status_code, text, json) ==
    [status_code |-> status_code, text |-> text, json |-> json]

\* responses with a non-success status: the body is an error text
ErrorResponses == {Response(c, t, NotJson) : c \in ErrorStatuses, t \in ErrorTexts}
\* 204 responses, with and without a body
EmptyResponses ==
    {Response(HTTP_NO_CONTENT, "", NotJson),
     Response(HTTP_NO_CONTENT, "body", PDict(<< <<"id", PStr("1")>> >>))}
\* 200 responses: the given JSON bodies, a JSON array, string, number and
\* null, and a body that is no JSON
OkResponses(bodies) ==
    {Response(HTTP_OK, "json", b) :
        b \in bodies \cup {NotJson, PList(<<>>), PStr("text"), PInt(3), PNone}}
Responses(bodies) == OkResponses(bodies) \cup EmptyResponses \cup ErrorResponses

(***************************************************************************)
(* AlpacaTradingAPI.create_order                                           *)
(***************************************************************************)
OrderRequired ==
    {"id", "client_order_id", "asset_id", "symbol", "asset_class", "filled_qty",
     "order_class", "time_in_force", "type", "status", "extended_hours",
     "created_at"}
OrderFields ==
    OrderRequired \cup
    {"updated_at", "submitted_at", "filled_at", "expired_at", "canceled_at",
     "failed_at", "replaced_at", "replaced_by", "replaces", "notional", "qty",
     "filled_avg_price", "order_type", "side", "limit_price", "stop_price",
     "legs", "trail_percent", "trail_price", "hwm", "position_intent"}

\* the checks without the one on extended_hours
create_order_check_lax(a) ==
    IF a.qty.t # "null" /\ a.notional.t # "null" THEN Raise(Exc("ValueError"))
    ELSE IF a.type \in {"limit", "stop_limit"} /\ a.limit_price.t = "null"
    THEN Raise(Exc("ValueError"))
    ELSE IF a.type \in {"stop", "stop_limit"} /\ a.stop_price.t = "null"
    THEN Raise(Exc("ValueError"))
    ELSE IF a.type = "trailing_stop" /\ a.trail_price.t = "null"
            /\ a.trail_percent.t = "null"
    THEN Raise(Exc("ValueError"))
    ELSE IF /\ (a.take_profit.t # "null" \/ a.stop_loss.t # "null")
            /\ (a.order_class.t = "null" \/ a.order_class.s \in {"", "simple"})
    THEN Raise(Exc("ValueError"))
    ELSE Ret(PNone)

\* lines 222-245: the checks made before the body is built
create_order_check(a) ==
    IF a.qty.t # "null" /\ a.notional.t # "null" THEN Raise(Exc("ValueError"))
    ELSE IF a.type \in {"limit", "stop_limit"} /\ a.limit_price.t = "null"
    THEN Raise(Exc("ValueError"))
    ELSE IF a.type \in {"stop", "stop_limit"} /\ a.stop_price.t = "null"
    THEN Raise(Exc("ValueError"))
    ELSE IF a.type = "trailing_stop" /\ a.trail_price.t = "null"
            /\ a.trail_percent.t = "null"
    THEN Raise(Exc("ValueError"))
    ELSE IF a.extended_hours /\ ~(a.type = "limit" /\ a.time_in_force = "day")
    THEN Raise(Exc("ValueError"))
    ELSE IF /\ (a.take_profit.t # "null" \/ a.stop_loss.t # "null")
            /\ (a.order_class.t = "null" \/ a.order_class.s \in {"", "simple"})
    THEN Raise(Exc("ValueError"))
    ELSE Ret(PNone)

\* lines 247-300: the JSON body of the request, or the ValueError of a
\* take_profit / stop_loss that lacks its price
create_order_body(a) ==
    LET body == <<
            <<"symbol", PText(a.symbol)>>,
            <<"side", PStr(a.side)>>,
            <<"type", PStr(a.type)>>,
            <<"time_in_force", PStr(a.time_in_force)>> >>
            \o Opt(a.qty.t # "null", "qty", PyStr(a.qty))
            \o Opt(a.notional.t # "null", "notional", PyStr(a.notional))
            \o Opt(a.limit_price.t # "null", "limit_price", PyStr(a.limit_price))
            \o Opt(a.stop_price.t # "null", "stop_price", PyStr(a.stop_price))
            \o Opt(a.trail_price.t # "null", "trail_price", PyStr(a.trail_price))
            \o Opt(a.trail_percent.t # "null", "trail_percent", PyStr(a.trail_percent))
            \o Opt(a.extended_hours, "extended_hours", PBool(TRUE))
            \o Opt(a.client_order_id.t # "null", "client_order_id", a.client_order_id)
            \o Opt(a.order_class.t # "null", "order_class", a.order_class)
        lp == Get(a.take_profit, "limit_price")
        sp == Get(a.stop_loss, "stop_price")
        lp2 == Get(a.stop_loss, "limit_price")
        tp_json == PDict(<< <<"limit_price", PyStr(lp)>> >>)
        sl_json == PDict(<< <<"stop_price", PyStr(sp)>> >>
                         \o Opt(lp2.t # "null", "limit_price", PyStr(lp2)))
    IN  IF a.take_profit.t # "null" /\ lp.t = "null" THEN Raise(Exc("ValueError"))
        ELSE IF a.stop_loss.t # "null" /\ sp.t = "null" THEN Raise(Exc("ValueError"))
        ELSE Ret(PDict(body
                       \o Opt(a.take_profit.t # "null", "take_profit", tp_json)
                       \o Opt(a.stop_loss.t # "null", "stop_loss", sl_json)))

\* lines 310-324: the Order built from the decoded response
create_order_parse(data) ==
    LET payload == Filter(data, OrderFields)
        cls == Get(data, "class")
    IN  IF cls.t = "null" \/ IsStr(cls)
        THEN Construct("Order", OrderFields, OrderRequired,
                       SetItem(payload, "asset_class", cls))
        ELSE Raise(Exc("InvalidAlpacaPayloadError"))

\* the order objects a server answers with
GoodOrder ==
    PDict(<< <<"id", PStr("1")>>, <<"client_order_id", PStr("c1")>>,
             <<"asset_id", PStr("a1")>>, <<"symbol", PStr("AAPL")>>,
             <<"asset_class", PStr("us_equity")>>, <<"filled_qty", PStr("0")>>,
             <<"order_class", PStr("")>>, <<"time_in_force", PStr("day")>>,
             <<"type", PStr("market")>>, <<"status", PStr("accepted")>>,
             <<"extended_hours", PBool(FALSE)>>,
             <<"created_at", PStr("2024-01-01T00:00:00Z")>> >>)
OrderBodies ==
    {GoodOrder,
     SetItem(GoodOrder, "class", PStr("us_equity")),
     SetItem(GoodOrder, "class", PInt(5)),
     SetItem(GoodOrder, "source", PStr("web")),
     Filter(GoodOrder, OrderRequired \ {"id"}),
     PDict(<<>>)}

\* the arguments of create_order that are not varied in a given call
DefaultOrder ==
    [symbol |-> <<"B">>, side |-> "buy", qty |-> PInt(1), notional |-> PNone,
     type |-> "market", time_in_force |-> "day", limit_price |-> PNone,
     stop_price |-> PNone, trail_price |-> PNone, trail_percent |-> PNone,
     extended_hours |-> FALSE, client_order_id |-> PNone, order_class |-> PNone,
     take_profit |-> PNone, stop_loss |-> PNone]

Prices == {PNone, PFloat(10 * FloatUnit)}
TakeProfits == {PNone, PDict(<<>>), PDict(<< <<"limit_price", PFloat(12 * FloatUnit)>> >>)}
StopLosses ==
    {PNone, PDict(<<>>), PDict(<< <<"stop_price", PFloat(8 * FloatUnit)>> >>),
     PDict(<< <<"stop_price", PFloat(8 * FloatUnit)>>,
              <<"limit_price", PFloat(7 * FloatUnit)>> >>)}

\* the argument lists create_order is called with: every symbol, every
\* quantity, every order type with its prices, every order class with its legs
OrderArgs ==
    {[DefaultOrder EXCEPT !.symbol = s, !.qty = q] :
        s \in Symbols, q \in {PNone, PInt(1)}}
    \cup {[DefaultOrder EXCEPT !.qty = q] : q \in QtyValues}
    \cup {[DefaultOrder EXCEPT !.qty = q, !.notional = n, !.type = t,
                               !.time_in_force = f, !.limit_price = l,
                               !.stop_price = p, !.trail_price = tr[1],
                               !.trail_percent = tr[2], !.extended_hours = e] :
            q \in {PNone, PInt(1)}, n \in Prices,
            t \in {"market", "limit", "stop", "stop_limit", "trailing_stop"},
            f \in {"day", "gtc"}, l \in Prices, p \in Prices,
            tr \in {<<PNone, PNone>>, <<PFloat(FloatUnit), PNone>>,
                    <<PNone, PFloat(FloatUnit)>>},
            e \in BOOLEAN}
    \cup {[DefaultOrder EXCEPT !.order_class = c, !.take_profit = tp,
                               !.stop_loss = sl, !.client_order_id = i] :
            c \in {PNone, PStr(""), PStr("simple"), PStr("bracket")},
            tp \in TakeProfits, sl \in StopLosses, i \in {PNone, PStr("my-id")}}

\* the responses a call with the arguments a is answered with: every response
\* for the quantities, a success and a failure for every other argument list
OrderResponses(a) ==
    IF a \in {[DefaultOrder EXCEPT !.qty = q] : q \in QtyValues}
    THEN Responses(OrderBodies)
    ELSE {Response(HTTP_OK, "json", GoodOrder), Response(403, "forbidden", NotJson)}

create_order ==
    /\ call.op = "none"
    /\ UNCHANGED streamVars
    /\ \E a \in OrderArgs :
        LET chk == create_order_check(a)
            body == create_order_body(a)
        IN  /\ call' = [op |-> "create_order", args |-> a]
            /\ IF Raised(chk) \/ Raised(body)
               THEN /\ sent' = <<>>
                    /\ resp' = NoResponse
                    /\ outcome' = IF Raised(chk) THEN chk ELSE Raise(body.exc)
               ELSE \E r \in OrderResponses(a) :
                       LET data == alpaca_api_request(r)
                       IN  /\ sent' = session_request("POST", "/v2/orders",
                                         PDict(<< <<"json", body.val>> >>))
                           /\ resp' = r
                           /\ outcome' = IF Raised(data) THEN data
                                         ELSE create_order_parse(data.val)

(***************************************************************************)
(* AlpacaTradingAPI.cancel_order_by_id, close_position                     *)
(***************************************************************************)
OrderIds == {"o1"}

cancel_order_by_id ==
    /\ call.op = "none"
    /\ UNCHANGED streamVars
    /\ \E order_id \in OrderIds, r \in Responses({GoodOrder}) :
        LET data == alpaca_api_request(r)
        IN  /\ call' = [op |-> "cancel_order_by_id", order_id |-> order_id]
            /\ sent' = session_request("DELETE", "/v2/orders/" \o order_id, PNone)
            /\ resp' = r
            \* the decoded response is dropped: the method returns None
            /\ outcome' = IF Raised(data) THEN data ELSE Ret(PNone)

\* lines 566-570: the body of the close request
close_position_body(qty, percentage) ==
    PDict(Opt(qty.t # "null", "qty", qty)
          \o Opt(percentage.t # "null", "percentage", percentage))

close_position ==
    /\ call.op = "none"
    /\ UNCHANGED streamVars
    /\ \E qty \in {PNone, PInt(1)}, percentage \in {PNone, PInt(50)} :
        LET body == close_position_body(qty, percentage)
        IN  /\ call' = [op |-> "close_position", symbol_or_asset_id |-> "AAPL",
                        qty |-> qty, percentage |-> percentage]
            /\ IF qty.t # "null" /\ percentage.t # "null"
               THEN /\ sent' = <<>>
                    /\ resp' = NoResponse
                    /\ outcome' = Raise(BadRequestError(""))
               ELSE \E r \in Responses({GoodOrder}) :
                       LET data == alpaca_api_request(r)
                       IN  /\ sent' = session_request("DELETE", "/v2/positions/AAPL",
                                          PDict(<< <<"json", IF Truthy(body) THEN body
                                                             ELSE PNone>> >>))
                           /\ resp' = r
                           \* alpaca_api_request returns a dict or raises
                           /\ outcome' = IF Raised(data) THEN data
                                         ELSE IF ~IsDict(data.val)
                                         THEN Raise(Exc("JsonResponseError"))
                                         ELSE data

(***************************************************************************)
(* AlpacaMarketDataAPI: the type-strict accessors.                         *)
(***************************************************************************)
\* the ISO-8601 texts datetime.fromisoformat accepts, after "Z" is replaced by
\* "+00:00"; any other text is a ValueError
Timestamps == {"2024-01-01T00:00:00Z", "2024-01-02T09:30:00+00:00"}
ReplaceZ(s) == IF s = "2024-01-01T00:00:00Z" THEN "2024-01-01T00:00:00+00:00" ELSE s

\* the first exception raised, evaluating left to right, or the values
FirstRaised(rs) == CHOOSE k \in 1..Len(rs) :
                      /\ Raised(rs[k])
                      /\ \A j \in 1..(k - 1) : ~Raised(rs[j])
AnyRaised(rs) == \E k \in 1..Len(rs) : Raised(rs[k])

\* a dict display {key: expr, ...} or a call cls(key=expr, ...): the values
\* are evaluated in order, the first exception ends the evaluation
Fields(pairs) ==
    LET rs == [k \in 1..Len(pairs) |-> pairs[k][2]]
    IN  IF AnyRaised(rs) THEN Raise(rs[FirstRaised(rs)].exc)
        ELSE Ret(PDict([k \in 1..Len(pairs) |-> <<pairs[k][1], pairs[k][2].val>>]))

\* [F(x) for x in items]
ListOf(items, F(_)) ==
    LET rs == [k \in 1..Len(items) |-> F(items[k])]
    IN  IF AnyRaised(rs) THEN Raise(rs[FirstRaised(rs)].exc)
        ELSE Ret(PList([k \in 1..Len(items) |-> rs[k].val]))

\* {key: F(value) for key, value in d.items()}, built entry by entry
DictOf(d, F(_)) ==
    Fields([k \in 1..Len(d.o) |-> <<d.o[k][1], F(d.o[k][2])>>])

\* iter(v): the items of a list, the keys of a dict, the characters of a str
\* (each a str; the text itself stands for them); a TypeError otherwise
Iter(v) ==
    CASE v.t = "list" -> Ret(PList(v.l))
      [] v.t = "obj" -> Ret(PList([k \in 1..Len(v.o) |-> PStr(v.o[k][1])]))
      [] v.t = "str" -> Ret(PList(IF v.s = "" THEN <<>> ELSE <<v>>))
      [] OTHER -> Raise(Exc("TypeError"))

\* d.get(key) evaluated on any value: only a dict has .get
DotGet(d, key) == IF IsDict(d) THEN Ret(Get(d, key)) ELSE Raise(Exc("AttributeError"))

\* f(x) where x may raise
Then(r, F(_)) == IF Raised(r) THEN r ELSE F(r.val)

_parse_ts(value) ==
    IF ~IsStr(value) THEN Raise(Exc("InvalidAlpacaPayloadError"))
    ELSE IF value.s \in Timestamps THEN Ret(PDatetime(ReplaceZ(value.s)))
    ELSE Raise(Exc("ValueError"))

_req_str(d, key) ==
    LET v == DotGet(d, key)
    IN  IF Raised(v) THEN v
        ELSE IF ~IsStr(v.val) THEN Raise(Exc("InvalidAlpacaPayloadError"))
        ELSE v

_req_float(d, key) ==
    LET v == DotGet(d, key)
    IN  IF Raised(v) THEN v
        ELSE IF IsIntInstance(v.val) THEN Ret(PFloat(v.val.i * FloatUnit))
        ELSE IF IsFloatInstance(v.val) THEN v
        ELSE Raise(Exc("InvalidAlpacaPayloadError"))

_req_int(d, key) ==
    LET v == DotGet(d, key)
    IN  IF Raised(v) THEN v
        ELSE IF IsIntInstance(v.val) THEN v
        ELSE IF v.val.t = "float" /\ v.val.i % FloatUnit = 0
        THEN Ret(PInt(v.val.i \div FloatUnit))
        ELSE Raise(Exc("InvalidAlpacaPayloadError"))

\* except (TypeError, KeyError): raise JsonResponseError()
CatchTypeKey(r) ==
    IF Raised(r) /\ (IsInstance(r.exc, "TypeError") \/ IsInstance(r.exc, "KeyError"))
    THEN Raise(Exc("JsonResponseError"))
    ELSE r

\* d[key]
Subscript(d, key) == IF HasKey(d, key) THEN Ret(Item(d, key)) ELSE Raise(Exc("KeyError"))

(***************************************************************************)
(* AlpacaMarketDataAPI: the response dataclasses                           *)
(* (alpaca_market_data_classes.py): the fields, and those without default. *)
(***************************************************************************)
HistoricalBars(kw) ==
    Then(kw, LAMBDA p : Construct("HistoricalBars",
        {"bars", "currency", "next_page_token"},
        {"bars", "currency", "next_page_token"}, p))
LatestBars(kw) ==
    Then(kw, LAMBDA p : Construct("LatestBars",
        {"bars", "currency"}, {"bars", "currency"}, p))
HistoricalQuotes(kw) ==
    Then(kw, LAMBDA p : Construct("HistoricalQuotes",
        {"quotes", "currency", "next_page_token"},
        {"quotes", "currency", "next_page_token"}, p))
LatestQuotes(kw) ==
    Then(kw, LAMBDA p : Construct("LatestQuotes",
        {"quotes", "currency"}, {"quotes", "currency"}, p))
HistoricalTrades(kw) ==
    Then(kw, LAMBDA p : Construct("HistoricalTrades",
        {"trades", "currency", "next_page_token"},
        {"trades", "currency", "next_page_token"}, p))
HistoricalAuctions(kw) ==
    Then(kw, LAMBDA p : Construct("HistoricalAuctions",
        {"datetime", "auctions", "currency", "next_page_token"}, {}, p))
MostActiveStock(kw) ==
    Then(kw, LAMBDA p : Construct("MostActiveStock",
        {"symbol", "volume", "trade_count"},
        {"symbol", "volume", "trade_count"}, p))
MostActiveStocks(kw) ==
    Then(kw, LAMBDA p : Construct("MostActiveStocks",
        {"most_active_stocks", "last_updated"},
        {"most_active_stocks", "last_updated"}, p))
Mover(kw) ==
    Then(kw, LAMBDA p : Construct("Mover",
        {"symbol", "percentage_change", "change", "price"},
        {"symbol", "percentage_change", "change", "price"}, p))
TopMarketMovers(kw) ==
    Then(kw, LAMBDA p : Construct("TopMarketMovers",
        {"gainers", "losers", "market_type", "last_updated"},
        {"gainers", "losers", "market_type", "last_updated"}, p))
Auction(kw) ==
    Then(kw, LAMBDA p : Construct("Auction",
        {"datetime", "exchange_code", "auction_price", "auction_trade_size",
         "condition_flag"},
        {"datetime", "exchange_code", "auction_price", "auction_trade_size",
         "condition_flag"}, p))
Trade(kw) ==
    Then(kw, LAMBDA p : Construct("Trade",
        {"datetime", "exchange", "price", "size", "trade_id", "condition_codes",
         "timezone", "trade_update"},
        {"datetime", "exchange", "price", "size", "trade_id", "condition_codes",
         "timezone", "trade_update"}, p))

Bar(kw) ==
    Then(kw, LAMBDA p : Construct("Bar",
        {"datetime", "open", "high", "low", "close", "volume", "number_of_trades",
         "volume_weighted_average_price"},
        {"datetime", "open", "high", "low", "close", "volume", "number_of_trades",
         "volume_weighted_average_price"}, p))
Quote(kw) ==
    Then(kw, LAMBDA p : Construct("Quote",
        {"datetime", "bid_exchange", "bid_price", "bid_size", "ask_exchange",
         "ask_price", "ask_size", "condition_codes"},
        {"datetime", "bid_exchange", "bid_price", "bid_size", "ask_exchange",
         "ask_price", "ask_size", "condition_codes"}, p))
Snapshot(kw) ==
    Then(kw, LAMBDA p : Construct("Snapshot",
        {"daily_bar", "latest_quote", "latest_trade", "minute_bar",
         "previous_daily_bar"},
        {"daily_bar", "latest_quote", "latest_trade", "minute_bar",
         "previous_daily_bar"}, p))
Snapshots(kw) ==
    Then(kw, LAMBDA p : Construct("Snapshots", {"snapshots"}, {"snapshots"}, p))

(***************************************************************************)
(* AlpacaMarketDataAPI: the record parsers.                                *)
(***************************************************************************)
\* [x]: the one-element list the normalizers wrap a symbol's records in
ListWrap(r) == IF Raised(r) THEN r ELSE Ret(PList(<<r.val>>))

\* v or default
OrElse(v, default) == IF Truthy(v) THEN v ELSE default

\* lines 173-182: one bar of _parse_bars_list
BarDict(b) ==
    Fields(<< <<"timestamp", Then(_req_str(b, "t"), _parse_ts)>>,
              <<"open", _req_float(b, "o")>>,
              <<"high", _req_float(b, "h")>>,
              <<"low", _req_float(b, "l")>>,
              <<"close", _req_float(b, "c")>>,
              <<"volume", _req_int(b, "v")>>,
              <<"number_of_trades", _req_int(b, "n")>>,
              <<"volume_weighted_average_price", _req_float(b, "vw")>> >>)

_parse_bars_list(raw) ==
    IF ~Truthy(raw) THEN Ret(PList(<<>>))
    ELSE Then(Iter(raw), LAMBDA it : ListOf(it.l, BarDict))

\* lines 748-757: one bar of _parse_crypto_bars_list (the volume is a float)
CryptoBarDict(b) ==
    Fields(<< <<"timestamp", Then(_req_str(b, "t"), _parse_ts)>>,
              <<"open", _req_float(b, "o")>>,
              <<"high", _req_float(b, "h")>>,
              <<"low", _req_float(b, "l")>>,
              <<"close", _req_float(b, "c")>>,
              <<"volume", _req_float(b, "v")>>,
              <<"number_of_trades", _req_int(b, "n")>>,
              <<"volume_weighted_average_price", _req_float(b, "vw")>> >>)

_parse_crypto_bars_list(raw) ==
    IF ~Truthy(raw) THEN Ret(PList(<<>>))
    ELSE Then(Iter(raw), LAMBDA it : ListOf(it.l, CryptoBarDict))

\* lines 354-362: one quote of _parse_historical_quotes_list
QuoteDict(q) ==
    Fields(<< <<"timestamp", Then(_req_str(q, "t"), _parse_ts)>>,
              <<"bid_exchange", _req_str(q, "bx")>>,
              <<"bid_price", _req_float(q, "bp")>>,
              <<"bid_size", _req_int(q, "bs")>>,
              <<"ask_exchange", _req_str(q, "ax")>>,
              <<"ask_price", _req_float(q, "ap")>>,
              <<"ask_size", _req_int(q, "as")>> >>)

_parse_historical_quotes_list(raw) ==
    IF ~Truthy(raw) THEN Ret(PList(<<>>))
    ELSE Then(Iter(raw), LAMBDA it : ListOf(it.l, QuoteDict))

\* lines 269-278: the bar of get_latest_bars (the timestamp is read with .get)
LatestBarDict(b) ==
    Fields(<< <<"timestamp", Then(DotGet(b, "t"), _parse_ts)>>,
              <<"open", _req_float(b, "o")>>,
              <<"high", _req_float(b, "h")>>,
              <<"low", _req_float(b, "l")>>,
              <<"close", _req_float(b, "c")>>,
              <<"volume", _req_int(b, "v")>>,
              <<"number_of_trades", _req_int(b, "n")>>,
              <<"volume_weighted_average_price", _req_float(b, "vw")>> >>)

\* raw.get("u") truthy: the required string, else "N/A"
TradeUpdate(raw) ==
    Then(DotGet(raw, "u"),
         LAMBDA u : IF Truthy(u) THEN _req_str(raw, "u") ELSE Ret(PStr("N/A")))

\* raw.get("c", [])
ConditionCodesOf(raw) ==
    IF IsDict(raw) THEN Ret(GetOr(raw, "c", PList(<<>>)))
    ELSE Raise(Exc("AttributeError"))

_parse_trade(raw) ==
    Trade(Fields(<< <<"datetime", Then(_req_str(raw, "t"), _parse_ts)>>,
                    <<"exchange", _req_str(raw, "x")>>,
                    <<"price", _req_float(raw, "p")>>,
                    <<"size", _req_int(raw, "s")>>,
                    <<"trade_id", _req_int(raw, "i")>>,
                    <<"condition_codes", ConditionCodesOf(raw)>>,
                    <<"timezone", _req_str(raw, "z")>>,
                    <<"trade_update", TradeUpdate(raw)>> >>))

_parse_bar(raw) ==
    Bar(Fields(<< <<"datetime", Then(_req_str(raw, "t"), _parse_ts)>>,
                  <<"open", _req_float(raw, "o")>>,
                  <<"high", _req_float(raw, "h")>>,
                  <<"low", _req_float(raw, "l")>>,
                  <<"close", _req_float(raw, "c")>>,
                  <<"volume", _req_int(raw, "v")>>,
                  <<"number_of_trades", _req_int(raw, "n")>>,
                  <<"volume_weighted_average_price", _req_float(raw, "vw")>> >>))

_parse_quote(raw) ==
    Quote(Fields(<< <<"datetime", Then(_req_str(raw, "t"), _parse_ts)>>,
                    <<"bid_exchange", _req_str(raw, "bx")>>,
                    <<"bid_price", _req_float(raw, "bp")>>,
                    <<"bid_size", _req_int(raw, "bs")>>,
                    <<"ask_exchange", _req_str(raw, "ax")>>,
                    <<"ask_price", _req_float(raw, "ap")>>,
                    <<"ask_size", _req_int(raw, "as")>>,
                    <<"condition_codes", ConditionCodesOf(raw)>> >>))

\* lines 103-111: one auction of _parse_auction_list
AuctionOf(a) ==
    Auction(Fields(<< <<"datetime", Then(_req_str(a, "t"), _parse_ts)>>,
                      <<"exchange_code", _req_str(a, "x")>>,
                      <<"auction_price", _req_float(a, "p")>>,
                      <<"auction_trade_size", _req_int(a, "s")>>,
                      <<"condition_flag", _req_str(a, "c")>> >>))

_parse_auction_list(raw) ==
    IF ~Truthy(raw) THEN Ret(PList(<<>>))
    ELSE Then(Iter(raw), LAMBDA it : ListOf(it.l, AuctionOf))

(***************************************************************************)
(* AlpacaMarketDataAPI: the normalizer of each method, applied to the      *)
(* decoded response `data`.                                                *)
(***************************************************************************)
\* lines 226-237: the mapping `parsed` get_historical_bars builds
historical_bars_parsed(data) ==
    Then(Subscript(data, "bars"), LAMBDA b :
        LET bars_by_symbol == IF IsDict(b) THEN b ELSE PDict(<<>>)
        IN  DictOf(bars_by_symbol, LAMBDA list : ListWrap(_parse_bars_list(list))))

\* lines 226-246
get_historical_bars_parse(data) ==
    CatchTypeKey(
        HistoricalBars(Fields(<<
            <<"bars", historical_bars_parsed(data)>>,
            <<"next_page_token", _req_str(data, "next_page_token")>> >>)))

\* lines 261-288
get_latest_bars_parse(data) ==
    CatchTypeKey(
        Then(Subscript(data, "bars"), LAMBDA b :
            LET bars_by_symbol == IF IsDict(b) THEN b ELSE PDict(<<>>)
                parsed == DictOf(bars_by_symbol,
                                 LAMBDA list : ListWrap(LatestBarDict(list)))
            IN  LatestBars(Fields(<< <<"bars", parsed>> >>))))

\* lines 401-413: the mapping `parsed` get_historical_quotes builds
historical_quotes_parsed(data) ==
    LET quotes_by_symbol == OrElse(Get(data, "quotes"), PDict(<<>>))
    IN  IF IsDict(quotes_by_symbol)
        THEN DictOf(quotes_by_symbol, LAMBDA list :
                        ListWrap(_parse_historical_quotes_list(list)))
        ELSE Ret(PDict(<<>>))

\* lines 401-421
get_historical_quotes_parse(data) ==
    CatchTypeKey(
        HistoricalQuotes(Fields(<<
            <<"quotes", historical_quotes_parsed(data)>>,
            <<"next_page_token", _req_str(data, "next_page_token")>> >>)))

\* lines 439-464
get_latest_quotes_parse(data) ==
    CatchTypeKey(
        LET quotes_by_symbol == OrElse(Get(data, "quotes"), PDict(<<>>))
            parsed == IF IsDict(quotes_by_symbol)
                      THEN DictOf(quotes_by_symbol,
                                  LAMBDA list : ListWrap(QuoteDict(list)))
                      ELSE Ret(PDict(<<>>))
        IN  LatestQuotes(Fields(<< <<"quotes", parsed>> >>)))

\* line 598: [self._parse_trade(trade) for trade in list]
TradeList(list) == Then(Iter(list), LAMBDA it : ListOf(it.l, _parse_trade))

\* lines 590-601: the mapping `parsed` get_historical_trades builds
historical_trades_parsed(data) ==
    LET trades_by_symbol == OrElse(Get(data, "trades"), PDict(<<>>))
    IN  IF IsDict(trades_by_symbol)
        THEN DictOf(trades_by_symbol, LAMBDA list : ListWrap(TradeList(list)))
        ELSE Ret(PDict(<<>>))

\* lines 590-609
get_historical_trades_parse(data) ==
    CatchTypeKey(
        HistoricalTrades(Fields(<<
            <<"trades", historical_trades_parsed(data)>>,
            <<"next_page_token", _req_str(data, "next_page_token")>> >>)))

\* lines 673-678: one stock of most_actives; `stock` is a key of the mapping
MostActiveOf(stock) ==
    MostActiveStock(Fields(<< <<"symbol", _req_str(stock, "symbol")>>,
                              <<"volume", _req_int(stock, "volume")>>,
                              <<"trade_count", _req_int(stock, "trade_count")>> >>))

\* lines 668-686.  The loop runs only over a mapping, whose keys are strs, so
\* its body raises at the first key: list(parsed.values()) is empty whenever
\* the constructor is reached.
get_most_active_stocks_parse(data) ==
    CatchTypeKey(
        LET most_actives == GetOr(data, "most_actives", PList(<<>>))
            parsed == IF IsDict(most_actives)
                      THEN Then(Iter(most_actives),
                                LAMBDA it : ListOf(it.l, MostActiveOf))
                      ELSE Ret(PList(<<>>))
        IN  MostActiveStocks(Fields(<< <<"most_active_stocks", parsed>> >>)))

\* lines 807-813: one symbol of the crypto bars mapping
CryptoSymbolBars(bar_list_obj) ==
    IF ~IsList(bar_list_obj) THEN Raise(Exc("InvalidAlpacaPayloadError"))
    ELSE ListWrap(_parse_crypto_bars_list(bar_list_obj))

\* lines 801-819
crypto_get_historical_bars_parse(data) ==
    CatchTypeKey(
        LET bars_raw == Get(data, "bars")
        IN  IF ~IsDict(bars_raw) THEN Raise(Exc("InvalidAlpacaPayloadError"))
            ELSE HistoricalBars(Fields(<<
                    <<"bars", DictOf(bars_raw, CryptoSymbolBars)>> >>)))

\* lines 718-732: parse_movers, one item
MoverOf(item) ==
    IF ~IsDict(item) THEN Raise(Exc("InvalidAlpacaPayloadError"))
    ELSE Mover(Fields(<< <<"symbol", _req_str(item, "symbol")>>,
                         <<"percentage_change", _req_float(item, "percent_change")>>,
                         <<"change", _req_float(item, "change")>>,
                         <<"price", _req_float(item, "price")>> >>))

\* lines 701-739: no exception is caught here
get_top_market_movers_parse(data) ==
    IF ~IsDict(data) THEN Raise(Exc("JsonResponseError"))
    ELSE
    LET gainers_obj == Get(data, "gainers")
        losers_obj == Get(data, "losers")
        gainers == IF IsList(gainers_obj) THEN gainers_obj.l ELSE <<>>
        losers == IF IsList(losers_obj) THEN losers_obj.l ELSE <<>>
    IN  TopMarketMovers(Fields(<<
            <<"gainers", ListOf(gainers, MoverOf)>>,
            <<"losers", ListOf(losers, MoverOf)>>,
            <<"market_type", _req_str(data, "market_type")>>,
            <<"last_updated", Then(_req_str(data, "last_updated"), _parse_ts)>> >>))

\* lines 147-151: one trading day of a symbol's auctions
AuctionDay(day_obj) ==
    Fields(<< <<"date", _req_str(day_obj, "d")>>,
              <<"opening_auctions", Then(DotGet(day_obj, "o"), _parse_auction_list)>>,
              <<"closing_auctions", Then(DotGet(day_obj, "c"), _parse_auction_list)>> >>)

\* lines 144-154: for day_obj in list
AuctionDays(list) == Then(Iter(list), LAMBDA it : ListOf(it.l, AuctionDay))

\* lines 136-164
get_historical_auctions_parse(data) ==
    CatchTypeKey(
        Then(Subscript(data, "auctions"), LAMBDA x :
            LET auctions_by_symbol == IF IsDict(x) THEN x ELSE PDict(<<>>)
            IN  HistoricalAuctions(Fields(<<
                    <<"auctions", DictOf(auctions_by_symbol, AuctionDays)>> >>))))

\* the keys of a snapshot object, in the order get_snapshots checks them
SnapshotKeys == <<"dailyBar", "latestQuote", "latestTrade", "minuteBar", "prevDailyBar">>

\* lines 524-547: the Snapshot of one symbol whose value is a mapping
SnapshotOf(snap) ==
    IF \E k \in 1..Len(SnapshotKeys) : ~IsDict(Get(snap, SnapshotKeys[k]))
    THEN Raise(Exc("InvalidAlpacaPayloadError"))
    ELSE Snapshot(Fields(<<
            <<"daily_bar", _parse_bar(Get(snap, "dailyBar"))>>,
            <<"latest_quote", _parse_quote(Get(snap, "latestQuote"))>>,
            <<"latest_trade", _parse_trade(Get(snap, "latestTrade"))>>,
            <<"minute_bar", _parse_bar(Get(snap, "minuteBar"))>>,
            <<"previous_daily_bar", _parse_bar(Get(snap, "prevDailyBar"))>> >>))

\* lines 519-556: a symbol whose value is not a mapping is passed over
get_snapshots_parse(data) ==
    CatchTypeKey(
        LET mappings == PDict(SelectSeq(data.o, LAMBDA kv : IsDict(kv[2])))
        IN  Snapshots(Fields(<< <<"snapshots", DictOf(mappings, SnapshotOf)>> >>)))

(***************************************************************************)
(* The payloads the market-data server answers with: the well-formed       *)
(* record of each kind, its malformed variants, and the response bodies    *)
(* built from them.                                                        *)
(***************************************************************************)
GoodTs == PStr("2024-01-01T00:00:00Z")

GoodBar ==
    PDict(<< <<"t", GoodTs>>, <<"o", PInt(100)>>, <<"h", PInt(101)>>,
             <<"l", PInt(99)>>, <<"c", PFloat(100500000)>>, <<"v", PInt(1000)>>,
             <<"n", PInt(10)>>, <<"vw", PFloat(100200000)>> >>)
GoodQuote ==
    PDict(<< <<"t", GoodTs>>, <<"bx", PStr("V")>>, <<"bp", PFloat(10500000)>>,
             <<"bs", PInt(1)>>, <<"ax", PStr("V")>>, <<"ap", PFloat(10600000)>>,
             <<"as", PInt(2)>>, <<"c", PList(<<PStr("R")>>)>> >>)
GoodTrade ==
    PDict(<< <<"t", GoodTs>>, <<"x", PStr("V")>>, <<"p", PFloat(10500000)>>,
             <<"s", PInt(100)>>, <<"i", PInt(1)>>, <<"c", PList(<<PStr("@")>>)>>,
             <<"z", PStr("C")>> >>)
GoodAuction ==
    PDict(<< <<"t", GoodTs>>, <<"x", PStr("P")>>, <<"p", PFloat(10500000)>>,
             <<"s", PInt(100)>>, <<"c", PStr("Q")>> >>)
GoodMover ==
    PDict(<< <<"symbol", PStr("AAPL")>>, <<"percent_change", PFloat(1500000)>>,
             <<"change", PFloat(2500000)>>, <<"price", PInt(170)>> >>)
GoodMostActive ==
    PDict(<< <<"symbol", PStr("AAPL")>>, <<"volume", PInt(1000)>>,
             <<"trade_count", PInt(10)>> >>)

\* d without the key
Drop(d, key) == PDict(SelectSeq(d.o, LAMBDA kv : kv[1] # key))

\* a record and its malformed variants: the int field missing, a str, a
\* fractional float; the str field an unparsable timestamp or an int; and a
\* record that is not an object
Variants(good, strKey, intKey) ==
    {good,
     Drop(good, intKey),
     SetItem(good, intKey, PStr("12")),
     SetItem(good, intKey, PFloat(1500000)),
     SetItem(good, strKey, PStr("not-a-date")),
     SetItem(good, strKey, PInt(0)),
     PStr("record")}

\* the sequences over S of length at most n
SeqsUpTo(S, n) == UNION {[1..k -> S] : k \in 0..n}

\* what a response holds for one symbol: a list of records, null, or a number
SymbolValues(records) ==
    {PList(l) : l \in SeqsUpTo(records, MaxRecords)} \cup {PNone, PInt(7)}

\* the symbol -> value mappings: AAPL with every value, MSFT absent, null or
\* well-formed
Mappings(values, goodValue) ==
    {PDict(<< <<"AAPL", v>> >> \o m) :
        v \in values,
        m \in {<<>>, << <<"MSFT", PNone>> >>, << <<"MSFT", goodValue>> >>}}

\* the rest of a body: the page token absent, a str or null
Tokens ==
    {<<>>, << <<"next_page_token", PStr("tok")>> >>, << <<"next_page_token", PNone>> >>}

\* the bodies of a method whose records are under `key`: the mapping absent,
\* null, a list, or one of `mappings`
Bodies(key, mappings) ==
    {PDict(<< <<key, m>> >> \o tok) :
        m \in mappings \cup {PNone, PList(<<>>)}, tok \in Tokens}
    \cup {PDict(tok) : tok \in Tokens}

BarsBodies ==
    Bodies("bars", Mappings(SymbolValues(Variants(GoodBar, "t", "v")),
                            PList(<<GoodBar>>)))
LatestBarsBodies ==
    Bodies("bars", Mappings(Variants(GoodBar, "t", "v") \cup {PNone}, GoodBar))
QuotesBodies ==
    Bodies("quotes", Mappings(SymbolValues(Variants(GoodQuote, "t", "bs")),
                              PList(<<GoodQuote>>)))
LatestQuotesBodies ==
    Bodies("quotes", Mappings(Variants(GoodQuote, "t", "bs") \cup {PNone}, GoodQuote))
TradesBodies ==
    Bodies("trades", Mappings(SymbolValues(Variants(GoodTrade, "t", "s")
                                           \cup {SetItem(GoodTrade, "u", PStr("canceled"))}),
                              PList(<<GoodTrade>>)))

\* a trading day of auctions: the opening list varies
AuctionDaysOf(openings) ==
    {PDict(d \o << <<"o", o>>, <<"c", PList(<<GoodAuction>>)>> >>) :
        d \in {<<>>, << <<"d", PStr("2024-01-01")>> >>}, o \in openings}
    \cup {PDict(<< <<"d", PStr("2024-01-01")>> >>), PStr("day")}
AuctionsBodies ==
    Bodies("auctions",
           Mappings({PList(<<d>>) :
                        d \in AuctionDaysOf(SymbolValues(Variants(GoodAuction, "t", "s")))}
                    \cup {PNone, PInt(7), PList(<<>>)},
                    PNone))

MostActivesBodies ==
    {PDict(m \o u) :
        m \in {<<>>,
               << <<"most_actives", PList(<<GoodMostActive>>)>> >>,
               << <<"most_actives", PList(<<>>)>> >>,
               << <<"most_actives", PNone>> >>,
               << <<"most_actives", PDict(<<>>)>> >>,
               << <<"most_actives", PDict(<< <<"AAPL", GoodMostActive>> >>)>> >>},
        u \in {<<>>, << <<"last_updated", GoodTs>> >>}}

MoverLists ==
    {PList(l) : l \in SeqsUpTo({GoodMover, Drop(GoodMover, "price"),
                                SetItem(GoodMover, "price", PStr("1")), PInt(5)},
                               MaxRecords)}
    \cup {PNone}
MoversBodies ==
    {PDict(<< <<"gainers", g>>, <<"losers", l>> >> \o m \o u) :
        g \in MoverLists, l \in {PList(<<>>), PList(<<GoodMover>>), PStr("none")},
        m \in {<<>>, << <<"market_type", PStr("stocks")>> >>},
        u \in {<<>>, << <<"last_updated", GoodTs>> >>,
               << <<"last_updated", PStr("yesterday")>> >>}}

\* the snapshot of a symbol: well-formed, one sub-record absent, null or
\* malformed, the condition codes of its trade or quote absent or a number,
\* and a value that is no object
GoodSnapshot ==
    PDict(<< <<"dailyBar", GoodBar>>, <<"latestQuote", GoodQuote>>,
             <<"latestTrade", GoodTrade>>, <<"minuteBar", GoodBar>>,
             <<"prevDailyBar", GoodBar>> >>)
SnapshotValues ==
    {GoodSnapshot, PNone, PStr("snapshot"), PDict(<<>>)}
    \cup {Drop(GoodSnapshot, SnapshotKeys[k]) : k \in 1..Len(SnapshotKeys)}
    \cup {SetItem(GoodSnapshot, SnapshotKeys[k], v) :
            k \in 1..Len(SnapshotKeys), v \in {PNone, PList(<<>>)}}
    \cup {SetItem(GoodSnapshot, "dailyBar", b) : b \in Variants(GoodBar, "t", "v")}
    \cup {SetItem(GoodSnapshot, "latestQuote", q) :
            q \in {Drop(GoodQuote, "c"), SetItem(GoodQuote, "c", PInt(5)),
                   SetItem(GoodQuote, "bs", PStr("12"))}}
    \cup {SetItem(GoodSnapshot, "latestTrade", t) :
            t \in {Drop(GoodTrade, "c"), SetItem(GoodTrade, "c", PInt(5)),
                   SetItem(GoodTrade, "u", PStr("canceled")),
                   SetItem(GoodTrade, "u", PInt(1)),
                   SetItem(GoodTrade, "p", PStr("10.5"))}}
\* AAPL with every value; and a second symbol that lacks its daily bar, after
\* a first that is well-formed, has an unparsable timestamp, or is null
SnapshotsBodies ==
    {PDict(<<>>)} \cup Mappings(SnapshotValues, GoodSnapshot)
    \cup {PDict(<< <<"AAPL", a>>, <<"MSFT", Drop(GoodSnapshot, "dailyBar")>> >>) :
            a \in {GoodSnapshot, PNone,
                   SetItem(GoodSnapshot, "latestTrade",
                           SetItem(GoodTrade, "t", PStr("not-a-date")))}}

(***************************************************************************)
(* AlpacaMarketDataAPI: the methods.                                       *)
(***************************************************************************)
CRYPTO_MIN_DATA_POINTS == 1
\* a range that ends one short of the maximum
CRYPTO_MAX_DATA_POINTS_Short == 10000 - 1
CRYPTO_MAX_DATA_POINTS == 10000

\* a method with no local validation: one request, answered by r, then the
\* normalizer
Fetch(op, args, path, params, r, Parse(_)) ==
    LET data == alpaca_api_request(r)
    IN  /\ call' = [op |-> op, args |-> args]
        /\ sent' = session_request("GET", path, PDict(<< <<"params", params>> >>))
        /\ resp' = r
        /\ outcome' = IF Raised(data) THEN data ELSE Parse(data.val)

SymbolsArg == PList(<<PStr("AAPL"), PStr("MSFT")>>)

get_historical_bars ==
    /\ call.op = "none"
    /\ UNCHANGED streamVars
    /\ \E r \in Responses(BarsBodies) :
        Fetch("get_historical_bars", [symbols |-> SymbolsArg],
              "/v2/stocks/bars",
              PDict(<< <<"symbols", SymbolsArg>>, <<"timeframe", PStr("1H")>>,
                       <<"limit", PNone>>, <<"feed", PStr("iex")>> >>),
              r, get_historical_bars_parse)

get_latest_bars ==
    /\ call.op = "none"
    /\ UNCHANGED streamVars
    /\ \E r \in Responses(LatestBarsBodies) :
        Fetch("get_latest_bars", [symbols |-> SymbolsArg],
              "/v2/stocks/bars/latest",
              PDict(<< <<"symbols", SymbolsArg>> >>),
              r, get_latest_bars_parse)

get_historical_quotes ==
    /\ call.op = "none"
    /\ UNCHANGED streamVars
    /\ \E r \in Responses(QuotesBodies) :
        Fetch("get_historical_quotes", [symbols |-> SymbolsArg],
              "/v2/stocks/quotes",
              PDict(<< <<"symbols", PStr("AAPL,MSFT")>>, <<"start", PNone>>,
                       <<"end", PNone>>, <<"limit", PNone>>, <<"feed", PStr("iex")>> >>),
              r, get_historical_quotes_parse)

get_latest_quotes ==
    /\ call.op = "none"
    /\ UNCHANGED streamVars
    /\ \E r \in Responses(LatestQuotesBodies) :
        Fetch("get_latest_quotes", [symbols |-> SymbolsArg],
              "/v2/stocks/quotes/latest",
              PDict(<< <<"symbols", SymbolsArg>> >>),
              r, get_latest_quotes_parse)

get_historical_trades ==
    /\ call.op = "none"
    /\ UNCHANGED streamVars
    /\ \E r \in Responses(TradesBodies) :
        Fetch("get_historical_trades", [symbols |-> SymbolsArg],
              "/v2/stocks/trades",
              PDict(<< <<"symbols", SymbolsArg>>, <<"start", PNone>>,
                       <<"end", PNone>>, <<"limit", PNone>>, <<"feed", PStr("iex")>> >>),
              r, get_historical_trades_parse)

get_historical_auctions ==
    /\ call.op = "none"
    /\ UNCHANGED streamVars
    /\ \E r \in Responses(AuctionsBodies) :
        Fetch("get_historical_auctions", [symbols |-> SymbolsArg],
              "/v2/stocks/auctions",
              PDict(<< <<"symbols", SymbolsArg>>, <<"start", PNone>>,
                       <<"end", PNone>>, <<"limit", PNone>> >>),
              r, get_historical_auctions_parse)

get_most_active_stocks ==
    /\ call.op = "none"
    /\ UNCHANGED streamVars
    /\ \E r \in Responses(MostActivesBodies) :
        Fetch("get_most_active_stocks", [by |-> "volume", top |-> 10],
              "/v1beta1/screener/stocks/most-actives",
              PDict(<< <<"by", PStr("volume")>>, <<"top", PInt(10)>> >>),
              r, get_most_active_stocks_parse)

get_top_market_movers ==
    /\ call.op = "none"
    /\ UNCHANGED streamVars
    /\ \E r \in Responses(MoversBodies) :
        Fetch("get_top_market_movers", [top |-> 10],
              "/v1beta1/screener/stocks/movers",
              PDict(<< <<"top", PInt(10)>> >>),
              r, get_top_market_movers_parse)

get_snapshots ==
    /\ call.op = "none"
    /\ UNCHANGED streamVars
    /\ \E r \in Responses(SnapshotsBodies) :
        Fetch("get_snapshots", [symbols |-> SymbolsArg],
              "/v2/stocks/snapshots",
              PDict(<< <<"symbols", SymbolsArg>> >>),
              r, get_snapshots_parse)

\* the sort and limit arguments crypto_get_historical_bars is called with
Sorts == {"asc", "desc", "ASC", ""}
Limits == {PNone} \cup {PInt(n) : n \in {-5, 0, 1, 1000, 10000, 10001}}

\* every response for the default arguments, a success and a failure otherwise
CryptoResponses(sort, limit) ==
    IF sort = "asc" /\ limit = PInt(1000) THEN Responses(BarsBodies)
    ELSE {Response(HTTP_OK, "json",
                   PDict(<< <<"bars", PDict(<< <<"BTC/USD", PList(<<GoodBar>>)>> >>)>> >>)),
          Response(500, "try later", NotJson)}

\* a sort accepted whatever its case
crypto_get_historical_bars_check_caseless(sort, limit) ==
    IF sort \notin {"asc", "desc", "ASC"}
    THEN Raise(Exc("InvalidSortParameterError"))
    ELSE Ret(PNone)

\* lines 772-776: the checks made before the request
crypto_get_historical_bars_check(sort, limit) ==
    IF sort \notin {"asc", "desc"}
    THEN Raise(Exc("InvalidSortParameterError"))
    ELSE IF /\ limit.t # "null"
            /\ ~(CRYPTO_MIN_DATA_POINTS <= limit.i /\ limit.i <= CRYPTO_MAX_DATA_POINTS)
    THEN Raise(Exc("InvalidLimitParameterError"))
    ELSE Ret(PNone)

crypto_get_historical_bars ==
    /\ call.op = "none"
    /\ UNCHANGED streamVars
    /\ \E sort \in Sorts, limit \in Limits :
        /\ call' = [op |-> "crypto_get_historical_bars",
                    args |-> [loc |-> "us", symbols |-> <<"BTC/USD">>,
                              timeframe |-> "1H", sort |-> sort, limit |-> limit]]
        /\ IF Raised(crypto_get_historical_bars_check(sort, limit))
           THEN /\ sent' = <<>>
                /\ resp' = NoResponse
                /\ outcome' = crypto_get_historical_bars_check(sort, limit)
           ELSE \E r \in CryptoResponses(sort, limit) :
                   LET data == alpaca_api_request(r)
                       params == PDict(<< <<"symbols", PStr("BTC/USD")>>,
                                          <<"timeframe", PStr("1H")>>,
                                          <<"sort", PStr(sort)>> >>
                                       \o Opt(limit.t # "null", "limit", limit))
                   IN  /\ sent' = session_request("GET", "/v1beta3/crypto/us/bars",
                                      PDict(<< <<"params", params>> >>))
                       /\ resp' = r
                       /\ outcome' = IF Raised(data) THEN data
                                     ELSE crypto_get_historical_bars_parse(data.val)

(***************************************************************************)
(* The canonicalizers applied to every symbol and quantity.                *)
(***************************************************************************)
\* the characters of a str built with PText
Chars(v) == [k \in 1..Len(v.l) |-> v.l[k].s]

normalise_symbol ==
    /\ call.op = "none"
    /\ UNCHANGED streamVars
    /\ \E symbol \in Symbols, asset \in AssetClasses :
        /\ call' = [op |-> "_normalise_symbol", symbol |-> symbol, asset |-> asset]
        /\ sent' = <<>>
        /\ resp' = NoResponse
        /\ outcome' = Ret(PText(_normalise_symbol(symbol, asset)))

normalise_quantity ==
    /\ call.op = "none"
    /\ UNCHANGED streamVars
    /\ \E qty \in QtyValues, asset \in AssetClasses :
        /\ call' = [op |-> "_normalise_quantity", qty |-> qty, asset |-> asset]
        /\ sent' = <<>>
        /\ resp' = NoResponse
        /\ outcome' = _normalise_quantity(qty, asset)

(***************************************************************************)
(* AlpacaTradingAPIWebSocket: the streaming listener.                      *)
(*                                                                         *)
(* The listener's own code runs in two kinds of thread: the caller's       *)
(* thread (connect, set_streams, close) and one thread per connection,     *)
(* started by connect, in which the websocket library runs the callbacks   *)
(* of that connection (_on_open, then _on_close when the connection ends). *)
(* The threads share self.streams and self.ws without a lock, so each      *)
(* statement that reads or writes them, and each frame put on the wire, is *)
(* a step of its own.  What the library and the network decide (a socket   *)
(* gets connected, a connection ends) is an event of the environment.      *)
(*                                                                         *)
(* A connection is a record:                                               *)
(*   st         "connecting" (thread started, socket not yet connected),   *)
(*              "connected" (ws.sock.connected is True), "closing" (the    *)
(*              socket was closed by close(), the close event is not yet   *)
(*              delivered), "closed" (the close event was delivered)       *)
(*   pc         where _on_open stands: "start", "authed" (auth frame       *)
(*              sent), "dumped" (subscribe frame built), "done"            *)
(*   frames     the frames sent on the connection, in order                *)
(*   dumped     the stream list _on_open read for its subscribe frame      *)
(*   reconnect  where _on_close stands: "none", "sleeping", "woken" (the   *)
(*              delay is over and the argument of connect is read), "done" *)
(*   arg        the list _on_close read as the argument of connect         *)
(*   next       the connection _on_close opened (0: none yet)              *)
(*   closed_at  the number of frames sent when close() was called on the   *)
(*              connection while it was connecting or connected (-1: it    *)
(*              was not)                                                   *)
(*   frame      the last frame that came in (data_type 0: none yet)        *)
(*   handled    the invocations of the handler that frame caused           *)
(***************************************************************************)
\* the stream lists a caller asks for
StreamLists == {<<"trade_updates">>, <<"account_updates">>}

\* lines 51-55 and 56-60: the two frames of the handshake
auth_frame == [action |-> "auth", streams |-> <<>>]
listen_frame(s) == [action |-> "listen", streams |-> s]

\* every connection the bounded environment can make the listener open
Conns == 1..MaxEvents

Live(c) == c \in DOMAIN conns

\* lines 39-48: a WebSocketApp with the four callbacks, run in a new thread
WebSocketApp ==
    [st |-> "connecting", pc |-> "start", frames |-> <<>>, dumped |-> <<>>,
     reconnect |-> "none", arg |-> <<>>, next |-> 0, closed_at |-> -1,
     frame |-> [data_type |-> 0, raw |-> <<>>], handled |-> <<>>]

\* lines 36-37: an empty argument keeps the stored list
connect_streams(s) == IF s # <<>> THEN s ELSE streams

\* line 103: self.ws has a socket and the socket is connected
sock_connected == IF ws = 0 THEN FALSE ELSE conns[ws].st = "connected"

\* ws.send on a WebSocketApp
send(conn, frame) == [conn EXCEPT !.frames = Append(@, frame)]

\* the caller's connect(streams)
connect ==
    /\ setter.pc = "idle"
    /\ events < MaxEvents
    /\ \E s \in StreamLists \cup {<<>>} :
        /\ streams' = connect_streams(s)
        /\ setter' = IF s # <<>> THEN [setter EXCEPT !.streams = s] ELSE setter
    /\ conns' = Append(conns, WebSocketApp)
    /\ ws' = Len(conns) + 1
    /\ events' = events + 1
    /\ UNCHANGED restVars

\* the library connected the socket of c: sock.connected becomes True, and
\* the thread of c goes on to call _on_open
Established(c) ==
    /\ Live(c)
    /\ conns[c].st = "connecting"
    /\ conns' = [conns EXCEPT ![c].st = "connected"]
    /\ UNCHANGED <<streams, ws, setter, events, restVars>>

\* lines 51-55: the first send of _on_open; a send on a socket that close()
\* has closed raises, which ends the callback
_on_open_auth(c) ==
    /\ Live(c)
    /\ conns[c].pc = "start"
    /\ conns[c].st \in {"connected", "closing"}
    /\ conns' = [conns EXCEPT ![c] =
                    IF conns[c].st = "connected"
                    THEN [send(@, auth_frame) EXCEPT !.pc = "authed"]
                    ELSE [@ EXCEPT !.pc = "done"]]
    /\ UNCHANGED <<streams, ws, setter, events, restVars>>

\* line 59: the subscribe frame is built from self.streams as it is now
_on_open_dumps(c) ==
    /\ Live(c)
    /\ conns[c].pc = "authed"
    /\ conns' = [conns EXCEPT ![c].dumped = streams, ![c].pc = "dumped"]
    /\ UNCHANGED <<streams, ws, setter, events, restVars>>

\* lines 56-60: the second send of _on_open
_on_open_listen(c) ==
    /\ Live(c)
    /\ conns[c].pc = "dumped"
    /\ conns' = [conns EXCEPT ![c] =
                    IF conns[c].st = "connected"
                    THEN [send(@, listen_frame(@.dumped)) EXCEPT !.pc = "done"]
                    ELSE [@ EXCEPT !.pc = "done"]]
    /\ UNCHANGED <<streams, ws, setter, events, restVars>>

\* line 100: set_streams stores the list ...
set_streams ==
    /\ setter.pc = "idle"
    /\ events < MaxEvents
    /\ \E s \in StreamLists :
        /\ streams' = s
        /\ setter' = [pc |-> "assigned", streams |-> s]
    /\ events' = events + 1
    /\ UNCHANGED <<conns, ws, restVars>>

\* lines 103-106: ... and sends a subscribe frame when the socket of self.ws
\* is connected
set_streams_send ==
    /\ setter.pc = "assigned"
    /\ setter' = [setter EXCEPT !.pc = "idle"]
    /\ conns' = IF sock_connected
                THEN [conns EXCEPT ![ws] = send(@, listen_frame(streams))]
                ELSE conns
    /\ UNCHANGED <<streams, ws, events, restVars>>

\* a callback that only records the close and never reconnects
_on_close_stop(conn) == [conn EXCEPT !.st = "closed"]

\* lines 112-113: the callback of a close event prints and starts the delay
_on_close_sleep(conn) == [conn EXCEPT !.st = "closed", !.reconnect = "sleeping"]

\* the library delivers the close event of c in the thread of c: the
\* connection failed, was dropped, or was closed by close().  The thread is
\* not inside _on_open then.
CloseEvent(c) ==
    /\ Live(c)
    /\ events < MaxEvents
    /\ conns[c].st \in {"connecting", "connected", "closing"}
    /\ \/ conns[c].pc = "done"
       \/ conns[c].pc = "start" /\ conns[c].st # "connected"
    /\ conns' = [conns EXCEPT ![c] = _on_close_sleep(@)]
    /\ events' = events + 1
    /\ UNCHANGED <<streams, ws, setter, restVars>>

\* lines 113-114: the delay ends and the argument of connect(self.streams)
\* is read
_on_close_wakes(c) ==
    /\ Live(c)
    /\ conns[c].reconnect = "sleeping"
    /\ conns' = [conns EXCEPT ![c].reconnect = "woken", ![c].arg = streams]
    /\ UNCHANGED <<streams, ws, setter, events, restVars>>

\* line 114 into lines 35-48: connect stores the list it was given, which
\* another thread may have replaced since it was read
_on_close_connect(c) ==
    /\ Live(c)
    /\ conns[c].reconnect = "woken"
    /\ streams' = connect_streams(conns[c].arg)
    /\ conns' = Append([conns EXCEPT ![c].reconnect = "done",
                                     ![c].next = Len(conns) + 1],
                       WebSocketApp)
    /\ ws' = Len(conns) + 1
    /\ UNCHANGED <<setter, events, restVars>>

\* lines 116-119: close() closes the socket of self.ws.  The WebSocketApp of
\* __init__ (ws = 0) has no socket.  On a connection whose thread has not
\* started run_forever, the library's keep_running flag is set again and
\* the close is lost.  A connection that is already closing or closed is
\* left as it is.
close_reaches(states) == IF ws = 0 THEN FALSE ELSE conns[ws].st \in states

close ==
    /\ setter.pc = "idle"
    /\ events < MaxEvents
    /\ events' = events + 1
    /\ \/ /\ close_reaches({"connecting", "connected"})
          /\ conns' = [conns EXCEPT ![ws].st = "closing",
                                    ![ws].closed_at = Len(conns[ws].frames)]
       \/ /\ close_reaches({"connecting"})
          /\ conns' = [conns EXCEPT ![ws].closed_at = Len(conns[ws].frames)]
       \/ /\ ~close_reaches({"connecting", "connected"})
          /\ conns' = conns
    /\ UNCHANGED <<streams, ws, setter, restVars>>

(***************************************************************************)
(* AlpacaTradingAPIWebSocket._on_data: the frames that come in.            *)
(*                                                                         *)
(* A frame is [data_type |-> opcode, raw |-> the payload as a sequence of  *)
(* bytes].  The decoders are given for the payloads of RawBytes: over that *)
(* alphabet and length they decide exactly as msgpack.unpackb and          *)
(* raw.decode("utf-8") followed by json.loads do.                          *)
(***************************************************************************)
\* ABNF.OPCODE_TEXT, ABNF.OPCODE_BINARY, ABNF.OPCODE_PONG
OPCODE_TEXT == 1
OPCODE_BINARY == 2
OPCODE_PONG == 10

\* the bytes '1', '{', '}', 0x80 (msgpack: a map of no entries; not UTF-8)
\* and 0xc1 (never used by msgpack; not UTF-8)
RawBytes == {49, 123, 125, 128, 193}
Raws == {<<b>> : b \in RawBytes} \cup {<<123, 125>>, <<49, 49>>, <<123, 49>>}
Frames == [data_type : {OPCODE_TEXT, OPCODE_BINARY, OPCODE_PONG}, raw : Raws]

\* line 77: msgpack.unpackb(raw, raw=False).  One byte below 0x80 is that
\* integer, 0x80 is the empty map; bytes after a complete object are
\* refused (ExtraData), and so is a byte that starts no object
msgpack_unpackb(raw) ==
    IF Len(raw) = 1 /\ raw[1] < 128 THEN Ret(PInt(raw[1]))
    ELSE IF raw = <<128>> THEN Ret(PDict(<<>>))
    ELSE Raise(Exc("ValueError"))

\* the digits of a JSON integer, most significant first
RECURSIVE DigitsValue(_)
DigitsValue(raw) ==
    IF raw = <<>> THEN 0
    ELSE 10 * DigitsValue(SubSeq(raw, 1, Len(raw) - 1)) + (raw[Len(raw)] - 48)

\* lines 82-83 and 92-93: raw.decode("utf-8") then json.loads.  A byte
\* from 0x80 on that continues or starts nothing is not UTF-8; the text is
\* JSON when it is an integer or the empty object
json_loads(raw) ==
    IF \E k \in DOMAIN raw : raw[k] >= 128 THEN Raise(Exc("UnicodeDecodeError"))
    ELSE IF raw = <<123, 125>> THEN Ret(PDict(<<>>))
    ELSE IF /\ raw # <<>>
            /\ \A k \in DOMAIN raw : raw[k] \in 48..57
            /\ (Len(raw) > 1 => raw[1] # 48)
         THEN Ret(PInt(DigitsValue(raw)))
    ELSE Raise(Exc("JSONDecodeError"))

\* self._handler(msg): one invocation of the caller's handler, which
\* returns or raises
Invocation(msg, raises) == [msg |-> msg, raised |-> raises]

\* lines 81-87 and 91-96: decode as JSON and hand over; whatever is raised,
\* by the decoder or by the handler, is caught and printed
json_handler(raw, before, raises) ==
    IF Raised(json_loads(raw)) THEN before
    ELSE Append(before, Invocation(json_loads(raw).val, raises))

\* lines 62-96: the invocations of the handler that one frame causes;
\* raises[k] tells whether the k-th invocation raises
_on_data_handled(frame, raises) ==
    IF frame.data_type = OPCODE_PONG THEN <<>>
    ELSE IF frame.data_type = OPCODE_BINARY
    THEN IF Raised(msgpack_unpackb(frame.raw))
         THEN json_handler(frame.raw, <<>>, raises[1])
         ELSE IF ~raises[1]
              THEN <<Invocation(msgpack_unpackb(frame.raw).val, FALSE)>>
              \* line 79 also catches what the handler raised
              ELSE json_handler(frame.raw,
                       <<Invocation(msgpack_unpackb(frame.raw).val, TRUE)>>,
                       raises[2])
    ELSE IF frame.data_type = OPCODE_TEXT
    THEN json_handler(frame.raw, <<>>, raises[1])
    ELSE <<>>

\* the library hands a frame that came in on c to _on_data, in the thread
\* of c, once _on_open has returned
_on_data(c) ==
    /\ Live(c)
    /\ events < MaxEvents
    /\ conns[c].st = "connected"
    /\ conns[c].pc = "done"
    /\ \E frame \in Frames, raises \in [1..2 -> BOOLEAN] :
        conns' = [conns EXCEPT ![c].frame = frame,
                               ![c].handled = _on_data_handled(frame, raises)]
    /\ events' = events + 1
    /\ UNCHANGED <<streams, ws, setter, restVars>>

\* the steps the listener takes by itself once a callback has begun
ListenerStep(c) ==
    \/ _on_open_auth(c)
    \/ _on_open_dumps(c)
    \/ _on_open_listen(c)
    \/ _on_close_wakes(c)
    \/ _on_close_connect(c)

StreamNext ==
    \/ connect
    \/ set_streams
    \/ set_streams_send
    \/ close
    \/ \E c \in Conns : Established(c)
    \/ \E c \in Conns : CloseEvent(c)
    \/ \E c \in Conns : _on_open_auth(c)
    \/ \E c \in Conns : _on_open_dumps(c)
    \/ \E c \in Conns : _on_open_listen(c)
    \/ \E c \in Conns : _on_close_wakes(c)
    \/ \E c \in Conns : _on_close_connect(c)
    \/ \E c \in Conns : _on_data(c)

(***************************************************************************)
(* AlpacaTradingAPI.get_assets, get_all_orders                             *)
(***************************************************************************)
\* the fields of Asset (alpaca_trading_api_classes.py), in declared order,
\* and those without a default
AssetFields ==
    <<"id", "asset_class", "exchange", "symbol", "name", "status", "tradable",
      "marginable", "shortable", "easy_to_borrow", "fractionable",
      "attributes", "cusip", "maintenance_margin_requirement",
      "margin_requirement_long", "margin_requirement_short">>
AssetRequired == {AssetFields[k] : k \in 1..12}

\* lines 113-124: one Asset, every field taken with row.get
AssetOf(item) ==
    IF ~IsDict(item) THEN Raise(Exc("InvalidAlpacaPayloadError"))
    ELSE Construct("Asset", {AssetFields[k] : k \in DOMAIN AssetFields},
                   AssetRequired,
                   PDict([k \in DOMAIN AssetFields |->
                            <<AssetFields[k], Get(item, AssetFields[k])>>]))

\* lines 107-126: the decoded response must be a list
get_assets_parse(data) ==
    IF ~IsList(data) THEN Raise(Exc("JsonResponseError"))
    ELSE Then(ListOf(data.l, AssetOf),
              LAMBDA assets : Ret(PData("GetAssetsResponse",
                                        << <<"assets", assets>> >>)))

\* lines 362-385: the decoded response must be a list; each Order is built
\* as create_order builds its own
get_all_orders_parse(data) ==
    IF ~IsList(data) THEN Raise(Exc("JsonResponseError"))
    ELSE Then(ListOf(data.l,
                     LAMBDA item :
                        IF ~IsDict(item)
                        THEN Raise(Exc("InvalidAlpacaPayloadError"))
                        ELSE create_order_parse(item)),
              LAMBDA orders : Ret(PData("AllOrdersResponse",
                                        << <<"orders", orders>> >>)))

\* the asset objects a server lists
GoodAsset(symbol) ==
    PDict(<< <<"id", PStr("a-" \o symbol)>>, <<"class", PStr("us_equity")>>,
             <<"exchange", PStr("NASDAQ")>>, <<"symbol", PStr(symbol)>>,
             <<"name", PStr(symbol)>>, <<"status", PStr("active")>>,
             <<"tradable", PBool(TRUE)>>, <<"marginable", PBool(TRUE)>>,
             <<"shortable", PBool(TRUE)>>, <<"easy_to_borrow", PBool(TRUE)>>,
             <<"fractionable", PBool(TRUE)>>, <<"attributes", PList(<<>>)>> >>)
AssetsBodies ==
    {PList(<<GoodAsset("AAPL")>>),
     PList(<<GoodAsset("MSFT"), GoodAsset("AAPL")>>),
     PList(<<PInt(1)>>),
     PDict(<< <<"assets", PList(<<GoodAsset("AAPL")>>)>> >>),
     PDict(<<>>)}
AllOrdersBodies ==
    {PList(<<GoodOrder>>),
     PList(<<SetItem(GoodOrder, "id", PStr("2")), GoodOrder>>),
     PList(<<PDict(<<>>)>>),
     PDict(<< <<"orders", PList(<<GoodOrder>>)>> >>),
     PDict(<<>>)}

get_assets ==
    /\ call.op = "none"
    /\ UNCHANGED streamVars
    /\ \E r \in Responses(AssetsBodies) :
        Fetch("get_assets", [status |-> PNone], "/v2/assets", PDict(<<>>),
              r, get_assets_parse)

get_all_orders ==
    /\ call.op = "none"
    /\ UNCHANGED streamVars
    /\ \E r \in Responses(AllOrdersBodies) :
        Fetch("get_all_orders", [limit |-> 50], "/v2/orders",
              PDict(<< <<"limit", PInt(50)>>, <<"nested", PStr("false")>> >>),
              r, get_all_orders_parse)

\* the JSON values a response can hold under the key "n", and the
\* response objects built from them (the last one lacks the key)
JsonValues ==
    {PNone, PBool(TRUE), PBool(FALSE), PInt(-3), PInt(0), PInt(7),
     PFloat(2 * FloatUnit), PFloat(-4 * FloatUnit), PFloat(2500000),
     PFloat(1), PStr("7"), PStr(""), PList(<<PInt(7)>>),
     PDict(<< <<"n", PInt(7)>> >>)}
ReqIntDicts == {PDict(<< <<"n", v>> >>) : v \in JsonValues} \cup {PDict(<<>>)}

\* the required-int accessor applied to a response object
req_int ==
    /\ call.op = "none"
    /\ UNCHANGED streamVars
    /\ \E d \in ReqIntDicts :
        /\ call' = [op |-> "_req_int", d |-> d, key |-> "n"]
        /\ sent' = <<>>
        /\ resp' = NoResponse
        /\ outcome' = _req_int(d, "n")

(***************************************************************************)
(* The client is synchronous: a call ends (returns or raises) before the   *)
(* caller makes the next one.                                              *)
(***************************************************************************)
Init ==
    /\ call = [op |-> "none"]
    /\ sent = <<>>
    /\ resp = NoResponse
    /\ outcome = Ret(PNone)
    \* lines 19-32: the listener as __init__ leaves it
    /\ streams = <<"trade_updates">>
    /\ ws = 0
    /\ conns = <<>>
    /\ setter = [pc |-> "idle", streams |-> <<>>]
    /\ events = 0

\* the caller takes the outcome; the client is ready for the next call
Return ==
    /\ call.op # "none"
    /\ UNCHANGED streamVars
    /\ call' = [op |-> "none"]
    /\ sent' = <<>>
    /\ resp' = NoResponse
    /\ outcome' = Ret(PNone)

Next ==
    \/ normalise_symbol
    \/ normalise_quantity
    \/ req_int
    \/ get_assets
    \/ get_all_orders
    \/ create_order
    \/ cancel_order_by_id
    \/ close_position
    \/ get_historical_bars
    \/ get_latest_bars
    \/ get_historical_quotes
    \/ get_latest_quotes
    \/ get_historical_trades
    \/ get_historical_auctions
    \/ get_most_active_stocks
    \/ get_top_market_movers
    \/ get_snapshots
    \/ crypto_get_historical_bars
    \/ Return

Spec == Init /\ [][Next]_vars

\* the listener alone
StreamSpec == Init /\ [][StreamNext]_vars

\* a thread that has begun a callback runs it to its end, and the delay of
\* _on_close ends
StreamFairSpec ==
    StreamSpec /\ \A c \in Conns : WF_vars(ListenerStep(c))

(***************************************************************************)
(* Properties of the transport and its error taxonomy.                     *)
(***************************************************************************)
\* a request was sent and the server answered it with the status code
Answered == Len(sent) = 1 /\ resp # NoResponse
NonSuccess == Answered /\ resp.status_code \notin {HTTP_OK, HTTP_NO_CONTENT}

\* the error class the taxonomy names for a status
ErrorClassOf(status_code) ==
    CASE status_code = 400 -> "BadRequestError"
      [] status_code = 401 -> "UnauthorizedError"
      [] status_code = 403 -> "ForbiddenError"
      [] status_code = 422 -> "UnprocessableEntityError"
      [] status_code = 429 -> "RateLimitError"
      [] status_code = 500 -> "InternalServerError"
      [] OTHER -> "UnknownError"

\* C1: a response whose status is neither 200 nor 204 raises the error class
\* fixed by the status (400 BadRequestError, 401 UnauthorizedError, 403
\* ForbiddenError, 422 UnprocessableEntityError, 429 RateLimitError, 500
\* InternalServerError), any other status an UnknownError carrying the code.
C1_StatusSpecificError ==
    NonSuccess =>
        /\ outcome.exc.type = ErrorClassOf(resp.status_code)
        /\ outcome.exc.type = "UnknownError" =>
               outcome.exc.message_body = ToString(resp.status_code)

\* C2: the error raised for a non-success status carries the literal text of
\* the response body in its message.
C2_ErrorCarriesBodyText ==
    NonSuccess =>
        /\ IsInstance(outcome.exc, "AlpacaAPIError")
        /\ outcome.exc.message_body = resp.text

\* C9: an AlpacaAPIError (a transport-status error) is raised only after a
\* request was completed with a non-success status; an error raised before
\* the request is of another type.
C9_TransportErrorAfterRequest ==
    IsInstance(outcome.exc, "AlpacaAPIError") => NonSuccess

(***************************************************************************)
(* Properties of the market-data normalizers.                              *)
(***************************************************************************)
MarketDataOps ==
    {"get_historical_bars", "get_latest_bars", "get_historical_quotes",
     "get_latest_quotes", "get_historical_trades", "get_historical_auctions",
     "get_most_active_stocks", "get_top_market_movers",
     "crypto_get_historical_bars"}

\* the well-formed bodies: the mapping present, every record with all its
\* fields of the right types, next_page_token a str
GoodLists(good) == {PList(l) : l \in SeqsUpTo({good}, MaxRecords)}
GoodPaged(key, good) ==
    {PDict(<< <<key, m>>, <<"next_page_token", PStr("tok")>> >>) :
        m \in Mappings(GoodLists(good), PList(<<good>>))}
GoodLatest(key, good) == {PDict(<< <<key, m>> >>) : m \in Mappings({good}, good)}
WellFormedBodies(op) ==
    CASE op \in {"get_historical_bars", "crypto_get_historical_bars"} ->
            GoodPaged("bars", GoodBar)
      [] op = "get_historical_quotes" -> GoodPaged("quotes", GoodQuote)
      [] op = "get_historical_trades" -> GoodPaged("trades", GoodTrade)
      [] op = "get_latest_bars" -> GoodLatest("bars", GoodBar)
      [] op = "get_latest_quotes" -> GoodLatest("quotes", GoodQuote)
      [] op = "get_most_active_stocks" ->
            {PDict(<< <<"most_actives", PList(<<GoodMostActive>>)>>,
                      <<"last_updated", GoodTs>> >>)}
      [] OTHER -> {}

\* C3: for a 200 response with a well-formed payload, get_historical_bars,
\* get_latest_bars, get_historical_quotes, get_latest_quotes,
\* get_historical_trades, get_most_active_stocks and
\* crypto_get_historical_bars return their typed record and do not raise.
C3_WellFormedPayloadReturns ==
    (/\ Answered
     /\ resp.status_code = HTTP_OK
     /\ resp.json \in WellFormedBodies(call.op))
    => (~Raised(outcome) /\ outcome.val.t = "dataclass")

\* C4: in a market-data call, a failure to extract a field of a 200 response
\* reaches the caller as JsonResponseError and as no other exception type.
C4_UniformPayloadError ==
    (/\ call.op \in MarketDataOps
     /\ Answered
     /\ resp.status_code = HTTP_OK
     /\ IsDict(resp.json)
     /\ Raised(outcome))
    => outcome.exc.type = "JsonResponseError"

\* the key the records of a list-valued method are under, and its normalizer
RecordsKey(op) ==
    CASE op \in {"get_historical_bars", "crypto_get_historical_bars"} -> "bars"
      [] op = "get_historical_quotes" -> "quotes"
      [] op = "get_historical_trades" -> "trades"
      [] op = "get_historical_auctions" -> "auctions"
      [] OTHER -> ""
NormalizerOf(op, data) ==
    CASE op = "get_historical_bars" -> get_historical_bars_parse(data)
      [] op = "crypto_get_historical_bars" -> crypto_get_historical_bars_parse(data)
      [] op = "get_historical_quotes" -> get_historical_quotes_parse(data)
      [] op = "get_historical_trades" -> get_historical_trades_parse(data)
      [] OTHER -> get_historical_auctions_parse(data)

\* C10: for bars, quotes, trades, crypto bars and auctions, a symbol whose
\* record list is null yields an empty list for that symbol and the call
\* does not fail because of it: when the response without the null symbols
\* is normalized, so is the response with them.
C10_NullRecordListIsEmpty ==
    (/\ RecordsKey(call.op) # ""
     /\ Answered
     /\ resp.status_code = HTTP_OK
     /\ IsDict(resp.json)
     /\ IsDict(Get(resp.json, RecordsKey(call.op))))
    => LET key == RecordsKey(call.op)
           m == Item(resp.json, key)
           nulls == {k \in 1..Len(m.o) : m.o[k][2] = PNone}
           rest == SetItem(resp.json, key,
                           PDict(SelectSeq(m.o, LAMBDA kv : kv[2] # PNone)))
       IN  (nulls # {} /\ ~Raised(NormalizerOf(call.op, rest)))
           => /\ ~Raised(outcome)
              /\ \A k \in nulls :
                    Get(Get(outcome.val, key), m.o[k][1]) = PList(<<>>)

(***************************************************************************)
(* Properties of order placement and of the canonicalizers.                *)
(***************************************************************************)
\* C5: the symbol in the body of the request create_order sends is the
\* canonical form of the symbol argument (uppercased, trimmed, for crypto
\* without "/" and "-"), for the asset class of the order.
C5_OrderSymbolCanonical ==
    (call.op = "create_order" /\ Len(sent) = 1)
    => \E asset \in AssetClasses :
          Get(Get(sent[1].options, "json"), "symbol")
              = PText(_normalise_symbol(call.args.symbol, asset))

\* a quantity that is not a number, or a number that is not positive
QtyInvalid(qty) ==
    /\ qty.t # "null"
    /\ \/ Raised(PyFloat(qty))
       \/ PyFloat(qty).val.t = "float" /\ PyFloat(qty).val.i <= 0

\* C6: create_order makes no request when its quantity is not numeric or not
\* positive: a local error is raised before any HTTP call.
C6_InvalidQtyNoRequest ==
    (call.op = "create_order" /\ QtyInvalid(call.args.qty))
    => (sent = <<>> /\ Raised(outcome))

\* C7: _normalise_symbol is idempotent: applied to its own result, for the
\* same asset class, it returns that result.
C7_SymbolIdempotent ==
    call.op = "_normalise_symbol"
    => _normalise_symbol(Chars(outcome.val), call.asset) = Chars(outcome.val)

\* a crypto call of _normalise_quantity with a number (not NaN) as quantity
CryptoNumeric ==
    /\ call.op = "_normalise_quantity"
    /\ Lower(call.asset) = "crypto"
    /\ call.qty.t # "null"
    /\ ~Raised(PyFloat(call.qty))
    /\ PyFloat(call.qty).val.t = "float"
QtyMicros == PyFloat(call.qty).val.i
RaisedInsufficient == outcome.exc.type = "InsufficientCryptoQuantityError"

\* C8 as stated: for crypto, InsufficientCryptoQuantityError is raised for
\* every numeric q < 0.0001 and for no q >= 0.0001.
C8_BelowMinimumRaises ==
    CryptoNumeric => (RaisedInsufficient <=> QtyMicros < FloatUnit \div 10000)

\* C8: for crypto, InsufficientCryptoQuantityError is raised exactly for the
\* numeric q with 0 < q < 0.0001; a q <= 0 raises InvalidQuantityError, and a
\* q >= 0.0001 raises neither.
C8_PositiveBelowMinimumRaises ==
    CryptoNumeric =>
        /\ RaisedInsufficient <=> (0 < QtyMicros /\ QtyMicros < FloatUnit \div 10000)
        /\ (outcome.exc.type = "InvalidQuantityError") <=> QtyMicros <= 0

\* a crypto quantity of 0.00005 was rejected as below the minimum
C8_Witness ==
    /\ CryptoNumeric
    /\ QtyMicros = 50
    /\ RaisedInsufficient

(***************************************************************************)
(* Properties of the record mappings and of the records.                   *)
(***************************************************************************)
HistoricalOps ==
    {"get_historical_bars", "get_historical_quotes", "get_historical_trades"}

\* the mapping a historical normalizer builds, and the record it parses
\* from one element of a symbol's list
ParsedOf(op, data) ==
    CASE op = "get_historical_bars" -> historical_bars_parsed(data)
      [] op = "get_historical_quotes" -> historical_quotes_parsed(data)
      [] OTHER -> historical_trades_parsed(data)
RecordOf(op, raw) ==
    CASE op = "get_historical_bars" -> BarDict(raw)
      [] op = "get_historical_quotes" -> QuoteDict(raw)
      [] OTHER -> _parse_trade(raw)

\* C11: the mapping built by the historical bars, quotes and trades
\* normalizers sends each symbol to the list of its records in server order:
\* as long as the symbol's list in the response, its i-th element parsed from
\* the i-th element of that list.
C11_RecordsInServerOrder ==
    (/\ call.op \in HistoricalOps
     /\ Answered
     /\ resp.status_code = HTTP_OK
     /\ IsDict(resp.json)
     /\ IsDict(Get(resp.json, RecordsKey(call.op)))
     /\ ~Raised(ParsedOf(call.op, resp.json)))
    => LET m == Item(resp.json, RecordsKey(call.op))
           parsed == ParsedOf(call.op, resp.json).val
       IN  \A k \in 1..Len(m.o) :
              IsList(m.o[k][2]) =>
                 LET raw == m.o[k][2].l
                     out == Get(parsed, m.o[k][1])
                 IN  /\ IsList(out)
                     /\ Len(out.l) = Len(raw)
                     /\ \A i \in 1..Len(raw) :
                           out.l[i] = RecordOf(call.op, raw[i]).val

\* the declared type of each field of Bar, Quote, Trade and Auction
\* (alpaca_market_data_classes.py); no two of the classes declare one name
\* with two types
DeclaredType(field) ==
    CASE field = "datetime" -> "datetime"
      [] field \in {"open", "high", "low", "close", "volume_weighted_average_price",
                    "bid_price", "ask_price", "price", "auction_price"} -> "float"
      [] field \in {"volume", "number_of_trades", "bid_size", "ask_size", "size",
                    "trade_id", "auction_trade_size"} -> "int"
      [] field = "condition_codes" -> "list[str]"
      [] OTHER -> "str"

\* isinstance(v, type)
HasType(v, type) ==
    CASE type = "datetime" -> v.t = "datetime"
      [] type = "float" -> IsFloatInstance(v)
      [] type = "int" -> IsIntInstance(v)
      [] type = "list[str]" -> IsList(v) /\ \A k \in 1..Len(v.l) : IsStr(v.l[k])
      [] OTHER -> IsStr(v)

\* every Bar, Quote, Trade and Auction inside the value v has fields of the
\* declared types
RECURSIVE RecordsTyped(_)
RecordsTyped(v) ==
    IF v.t = "dataclass" /\ v.s \in {"Bar", "Quote", "Trade", "Auction"}
    THEN \A k \in 1..Len(v.o) : HasType(v.o[k][2], DeclaredType(v.o[k][1]))
    ELSE /\ \A k \in 1..Len(v.l) : RecordsTyped(v.l[k])
         /\ \A k \in 1..Len(v.o) : RecordsTyped(v.o[k][2])

\* C12: every field of every Bar, Quote, Trade and Auction returned by a
\* successful market-data call has its declared type: a response value of
\* another type makes the call fail instead.
C12_FieldsHaveDeclaredTypes ==
    (call.op \in MarketDataOps \cup {"get_snapshots"} /\ Answered /\ ~Raised(outcome))
    => RecordsTyped(outcome.val)

\* a snapshot object without one of its five sub-records (absent or null)
LacksSubRecord(snap) ==
    IsDict(snap) /\ \E k \in 1..Len(SnapshotKeys) : Get(snap, SnapshotKeys[k]) = PNone

\* the Snapshot has its five sub-records, each a record of its class
Populated(snapshot) ==
    /\ {snapshot.o[k][1] : k \in 1..Len(snapshot.o)}
          = {"daily_bar", "latest_quote", "latest_trade", "minute_bar",
             "previous_daily_bar"}
    /\ \A k \in 1..Len(snapshot.o) :
          /\ snapshot.o[k][2].t = "dataclass"
          /\ snapshot.o[k][2].s =
                (CASE snapshot.o[k][1] = "latest_quote" -> "Quote"
                   [] snapshot.o[k][1] = "latest_trade" -> "Trade"
                   [] OTHER -> "Bar")

\* C13: get_snapshots fails with the payload error JsonResponseError whenever
\* the snapshot object of a symbol lacks one of daily bar, latest quote,
\* latest trade, minute bar, previous daily bar; every Snapshot it returns
\* has all five.
C13_SnapshotNeedsAllFive ==
    (call.op = "get_snapshots" /\ Answered /\ resp.status_code = HTTP_OK
        /\ IsDict(resp.json))
    => /\ (\E k \in 1..Len(resp.json.o) : LacksSubRecord(resp.json.o[k][2]))
              => outcome.exc.type = "JsonResponseError"
       /\ ~Raised(outcome) =>
              LET snapshots == Get(outcome.val, "snapshots")
              IN  \A k \in 1..Len(snapshots.o) : Populated(snapshots.o[k][2])

(***************************************************************************)
(* Properties of the argument checks of crypto_get_historical_bars.        *)
(***************************************************************************)
CryptoCall == call.op = "crypto_get_historical_bars"
LimitGiven == CryptoCall /\ call.args.limit.t # "null"
LimitOutside == LimitGiven /\ (call.args.limit.i < 1 \/ call.args.limit.i > 10000)
RaisedLimitError == outcome.exc.type = "InvalidLimitParameterError"
RaisedSortError == outcome.exc.type = "InvalidSortParameterError"

\* C14 as stated: every limit outside [1, 10000] raises
\* InvalidLimitParameterError before any request; a limit inside the range,
\* or no limit, does not raise it.
C14_LimitOutsideRaises ==
    CryptoCall =>
        /\ LimitOutside => (RaisedLimitError /\ sent = <<>>)
        /\ ~LimitOutside => ~RaisedLimitError

\* C14: with a sort of "asc" or "desc", every limit outside [1, 10000] raises
\* InvalidLimitParameterError before any request; whatever the sort, a limit
\* inside the range, or no limit, does not raise it.
C14_LimitOutsideRaisesWhenSortValid ==
    CryptoCall =>
        /\ (LimitOutside /\ call.args.sort \in {"asc", "desc"})
              => (RaisedLimitError /\ sent = <<>>)
        /\ ~LimitOutside => ~RaisedLimitError

\* a limit of 10001 with a valid sort was refused without a request
C14_Witness ==
    /\ CryptoCall
    /\ call.args.limit = PInt(10001)
    /\ call.args.sort = "asc"
    /\ RaisedLimitError
    /\ sent = <<>>

\* C15: every sort other than exactly "asc" or "desc" raises
\* InvalidSortParameterError before any request; "asc" and "desc" do not.
C15_SortOtherRaises ==
    CryptoCall =>
        /\ call.args.sort \notin {"asc", "desc"} => (RaisedSortError /\ sent = <<>>)
        /\ call.args.sort \in {"asc", "desc"} => ~RaisedSortError

\* the sort "ASC" was refused without a request
C15_Witness ==
    /\ CryptoCall
    /\ call.args.sort = "ASC"
    /\ RaisedSortError
    /\ sent = <<>>

(***************************************************************************)
(* Properties of alpaca_api_request on success statuses, and of the number *)
(* of requests.                                                            *)
(***************************************************************************)
\* C16: given status 204, alpaca_api_request returns an empty object whatever
\* the body holds, be it no JSON at all or a JSON object with content; a
\* method that returns the transport's result returns that empty object.
C16_NoContentIsEmptyObject ==
    (Answered /\ resp.status_code = HTTP_NO_CONTENT)
    => /\ alpaca_api_request(resp) = Ret(PDict(<<>>))
       /\ call.op = "close_position" => outcome = Ret(PDict(<<>>))

\* close_position was answered 204 with a non-empty JSON body and returned {}
C16_Witness ==
    /\ call.op = "close_position"
    /\ Answered
    /\ resp.status_code = HTTP_NO_CONTENT
    /\ IsDict(resp.json) /\ resp.json # PDict(<<>>)
    /\ outcome = Ret(PDict(<<>>))

\* C17: given status 200, alpaca_api_request returns the decoded body when it
\* is a JSON object and raises JsonResponseError when the body does not
\* decode or decodes to an array, string, number or null.
C17_OkDecodesObject ==
    (Answered /\ resp.status_code = HTTP_OK)
    => /\ alpaca_api_request(resp) =
             (IF IsDict(resp.json) THEN Ret(resp.json)
              ELSE Raise(Exc("JsonResponseError")))
       /\ ~IsDict(resp.json) => outcome = Raise(Exc("JsonResponseError"))
       /\ (IsDict(resp.json) /\ call.op = "close_position") => outcome = Ret(resp.json)

\* a 200 response holding a JSON array ended in JsonResponseError
C17_Witness ==
    /\ Answered
    /\ resp.status_code = HTTP_OK
    /\ IsList(resp.json)
    /\ outcome = Raise(Exc("JsonResponseError"))

\* C18: a call that reaches the transport issues exactly one request,
\* whatever the outcome (success, empty, status error or JSON error), and no
\* call issues more than one.
C18_OneRequestPerCall ==
    /\ Len(sent) <= 1
    /\ resp # NoResponse => Len(sent) = 1
    /\ (call.op # "none" /\ Len(sent) = 0) => resp = NoResponse

\* a call that ended in a status error made one request
C18_Witness ==
    /\ call.op = "cancel_order_by_id"
    /\ resp.status_code = 500
    /\ outcome.exc.type = "UnknownError"
    /\ Len(sent) = 1

(***************************************************************************)
(* Properties of the streaming listener.                                   *)
(***************************************************************************)
\* frame f was sent on connection c, and frame g later on the same one
SentInOrder(c, f, g) ==
    \E i, j \in DOMAIN conns[c].frames :
        i < j /\ conns[c].frames[i] = f /\ conns[c].frames[j] = g

\* _on_open ran to its end on c: the authentication frame went out, and
\* after it the subscribe frame with the list _on_open read
Handshaken(c) ==
    /\ conns[c].pc = "done"
    /\ SentInOrder(c, auth_frame, listen_frame(conns[c].dumped))

\* c is a connection the listener opened by itself after a close event
Reconnection(c) == \E b \in DOMAIN conns : conns[b].next = c

C20_AuthBeforeSubscribe ==
    \A c \in DOMAIN conns :
        \A j \in DOMAIN conns[c].frames :
            conns[c].frames[j].action = "listen"
                => \E i \in 1..(j - 1) : conns[c].frames[i] = auth_frame

\* the connections whose socket is open
OpenConnections == {c \in DOMAIN conns : conns[c].st = "connected"}

\* C21: at any time the listener drives at most one connection: there are
\* never two connections with an open socket.
C21_AtMostOneConnection == Cardinality(OpenConnections) <= 1

\* the caller is leaving set_streams in this step
SetStreamsReturns == setter.pc = "assigned" /\ setter'.pc = "idle"

\* _on_open builds the subscribe frame of connection c in this step
BuildsSubscribe(c) ==
    Live(c) /\ conns[c].pc = "authed" /\ conns'[c].pc = "dumped"

\* C22: set_streams replaces the stored list: when it returns the stored
\* list is the list it was given; it has sent one subscribe frame with that
\* list if the socket of the connection is open and nothing otherwise; and
\* the subscribe frame a connection builds while the caller is in no call
\* lists the list the caller stored last.
C22_SetStreamsReplacesList ==
    [][/\ SetStreamsReturns =>
            /\ streams' = setter.streams
            /\ conns' = IF sock_connected
                        THEN [conns EXCEPT
                                ![ws] = send(@, listen_frame(setter.streams))]
                        ELSE conns
       /\ \A c \in Conns :
            (BuildsSubscribe(c) /\ setter.pc = "idle" /\ setter.streams # <<>>)
                => conns'[c].dumped = setter.streams]_vars

\* the positions of the subscribe frames sent on connection c
Subscribes(c) ==
    {j \in DOMAIN conns[c].frames : conns[c].frames[j].action = "listen"}

\* the last subscribe frame sent on connection c
LastSubscribe(c) ==
    conns[c].frames[CHOOSE j \in Subscribes(c) :
                        \A k \in Subscribes(c) : k <= j]

\* C23: once the open handler of the listener's connection and every
\* set_streams call have finished and the connection is open, the last
\* subscribe frame sent on it lists the stored stream list.
C23_LastSubscribeIsStoredList ==
    (/\ ws # 0
     /\ sock_connected
     /\ conns[ws].pc = "done"
     /\ setter.pc = "idle")
        => /\ Subscribes(ws) # {}
           /\ LastSubscribe(ws).streams = streams

\* close() was called on connection c before its close event
CloseCalled(c) == conns[c].closed_at >= 0

\* C24: after close() the listener stops: on a connection that close() was
\* called on no further frame is sent, and its close event, which comes
\* after the call, opens no new connection.
C24_CloseStopsListener ==
    \A c \in DOMAIN conns :
        CloseCalled(c)
            => /\ Len(conns[c].frames) = conns[c].closed_at
               /\ conns[c].reconnect = "none"
               /\ conns[c].next = 0

\* the frame that came in on c can be decoded the way its type asks for
Decodable(frame) ==
    \/ frame.data_type = OPCODE_TEXT /\ ~Raised(json_loads(frame.raw))
    \/ /\ frame.data_type = OPCODE_BINARY
       /\ \/ ~Raised(msgpack_unpackb(frame.raw))
          \/ ~Raised(json_loads(frame.raw))

\* C25: a frame causes at most one invocation of the handler: none for a
\* pong frame or a frame that cannot be decoded, exactly one for a text or
\* binary frame that can, whether the handler returns or raises.
C25_HandlerOncePerFrame ==
    \A c \in DOMAIN conns :
        conns[c].frame.data_type # 0
            => Len(conns[c].handled) = IF Decodable(conns[c].frame) THEN 1 ELSE 0

(***************************************************************************)
(* Properties of the accessors and of the remaining client methods.        *)
(***************************************************************************)
\* the value is a JSON integer, or a JSON float with no fractional part
WholeNumber(v) == v.t = "int" \/ (v.t = "float" /\ v.i % FloatUnit = 0)
WholeValue(v) == IF v.t = "int" THEN v.i ELSE v.i \div FloatUnit

\* C26: the required-int accessor returns the integer when the value under
\* the key is an integer or a float with no fractional part, and raises
\* InvalidAlpacaPayloadError for every other value: a missing key, null, a
\* boolean, a string, a fractional float, a list or an object.
C26_ReqIntOnlyWholeNumbers ==
    call.op = "_req_int"
        => IF HasKey(call.d, call.key) /\ WholeNumber(Item(call.d, call.key))
           THEN outcome = Ret(PInt(WholeValue(Item(call.d, call.key))))
           ELSE outcome.exc.type = "InvalidAlpacaPayloadError"

\* the key under which a listing method returns its records
ListingKey == IF call.op = "get_assets" THEN "assets" ELSE "orders"

\* the response is a 200 whose body is a JSON array of well-formed objects
WellFormedArray ==
    /\ resp.status_code = HTTP_OK
    /\ IsList(resp.json)
    /\ resp.json.l # <<>>
    /\ \A k \in DOMAIN resp.json.l :
          /\ IsDict(resp.json.l[k])
          /\ HasKey(resp.json.l[k], "id")

\* C27: for a 200 response whose body is a JSON array of well-formed
\* objects, get_assets and get_all_orders do not raise and return one
\* record per element of the array, in the order of the array.
C27_ListingReturnsRecordsInOrder ==
    (call.op \in {"get_assets", "get_all_orders"} /\ WellFormedArray)
        => /\ ~Raised(outcome)
           /\ Len(Item(outcome.val, ListingKey).l) = Len(resp.json.l)
           /\ \A k \in DOMAIN resp.json.l :
                 Item(Item(outcome.val, ListingKey).l[k], "id")
                     = Item(resp.json.l[k], "id")

\* the call canonicalizes a non-null numeric quantity of a non-crypto asset
NonCryptoNumeric ==
    /\ call.op = "_normalise_quantity"
    /\ Lower(call.asset) # "crypto"
    /\ call.qty.t \in {"int", "float"}

\* C28: for a non-crypto asset class the canonicalization of a non-null
\* numeric quantity raises or returns a whole share count of at least 1,
\* never 0 and never a negative count.
C28_WholeSharesAtLeastOne ==
    NonCryptoNumeric
        => \/ Raised(outcome)
           \/ outcome.val.t = "int" /\ outcome.val.i >= 1

\* the JSON body of the request create_order sent
OrderBody == Item(sent[1].options, "json")

\* the checks of create_order that the arguments fail
OrderCheckFails ==
    LET a == call.args
    IN  \/ a.qty.t # "null" /\ a.notional.t # "null"
        \/ a.type \in {"limit", "stop_limit"} /\ a.limit_price.t = "null"
        \/ a.type \in {"stop", "stop_limit"} /\ a.stop_price.t = "null"
        \/ a.extended_hours /\ ~(a.type = "limit" /\ a.time_in_force = "day")
        \/ /\ a.take_profit.t # "null" \/ a.stop_loss.t # "null"
           /\ a.order_class.t = "null" \/ a.order_class.s \in {"", "simple"}

\* C29: the body of every request create_order issues never holds both qty
\* and notional, holds limit_price for a limit or stop_limit order and
\* stop_price for a stop or stop_limit order, holds extended_hours only for
\* a limit order in force for the day, and holds take_profit or stop_loss
\* only with an order_class other than '' and 'simple'; when one of these
\* checks fails, ValueError is raised and no request is issued.
C29_OrderBodyIsConsistent ==
    call.op = "create_order"
        => /\ OrderCheckFails
                => sent = <<>> /\ outcome.exc.type = "ValueError"
           /\ sent # <<>>
                => /\ ~(HasKey(OrderBody, "qty") /\ HasKey(OrderBody, "notional"))
                   /\ Item(OrderBody, "type").s \in {"limit", "stop_limit"}
                        => HasKey(OrderBody, "limit_price")
                   /\ Item(OrderBody, "type").s \in {"stop", "stop_limit"}
                        => HasKey(OrderBody, "stop_price")
                   /\ HasKey(OrderBody, "extended_hours")
                        => /\ Item(OrderBody, "type").s = "limit"
                           /\ Item(OrderBody, "time_in_force").s = "day"
                   /\ (HasKey(OrderBody, "take_profit")
                       \/ HasKey(OrderBody, "stop_loss"))
                        => /\ HasKey(OrderBody, "order_class")
                           /\ Item(OrderBody, "order_class").s
                                \notin {"", "simple"}

\* a limit order for the day went out with extended_hours and its limit_price
C29_Witness ==
    /\ call.op = "create_order"
    /\ sent # <<>>
    /\ HasKey(OrderBody, "extended_hours")
    /\ HasKey(OrderBody, "limit_price")

\* C30: whenever get_snapshots returns, its result has an entry for every
\* symbol key of the response body: no symbol of the response is left out.
C30_EverySymbolHasSnapshot ==
    (/\ call.op = "get_snapshots"
     /\ ~Raised(outcome)
     /\ resp.status_code = HTTP_OK
     /\ IsDict(resp.json))
        => \A k \in DOMAIN resp.json.o :
              HasKey(Item(outcome.val, "snapshots"), resp.json.o[k][1])

====
